---- MODULE Spec2Model ----
(***************************************************************************)
(* Model of zinderud/jslib, src/services/passwordGeneration.service.ts:    *)
(* the encrypted password history of PasswordGenerationService             *)
(* (getHistory, addHistory, clear, encryptHistory, decryptHistory,        *)
(* matchesPrevious) over the storage and crypto collaborators.             *)
(*                                                                         *)
(* Every async method is cut at its await points: one action per           *)
(* continuation.  Arrays are heap objects (this.history and the            *)
(* currentHistory of a running addHistory may or may not be the same       *)
(* array), so the heap is modelled explicitly.                             *)
(***************************************************************************)
EXTENDS Integers, Sequences, FiniteSets, TLC

(* ------------------------------------------------------------------ *)
(* Bounds of the model                                                 *)
(* ------------------------------------------------------------------ *)
MaxTime == 1       \* Date.now() ranges over 0..MaxTime in Spec and SpecSeq
MaxHist == 1       \* Spec: addHistory is not called past this in-memory length
MaxSeqHist == 4    \* SpecSeq: the same
MaxPrior == 1      \* length of the list an earlier instance left in storage
CapClock == 102    \* pushes made in SpecCap (one clock tick per push)
MaxLen == 3        \* length of the lists of SpecRoundTrip
MaxMin == 2        \* SpecGen: the minimums given are -1, 0 and MaxMin
MaxGenLen == 2     \* SpecGen: the lengths given are undefined and 0..MaxGenLen
MaxSeed == 1       \* SpecGen: the streams of random numbers
MaxShuffle == 1    \* SpecGen: the shuffle rotates by 0..MaxShuffle, or reverses
MaxLockMin == 1    \* SpecLock: the lock options stored are null and -1..MaxLockMin
MaxUpsert == 2     \* SpecVault: upsert is given an object or an array of up to MaxUpsert

(* ------------------------------------------------------------------ *)
(* Program constants                                                   *)
(* ------------------------------------------------------------------ *)
MaxPasswordsInHistory == 100

\* A string is a sequence of symbols, so that plaintexts and ciphertext
\* tokens are values of one kind, as they are in PasswordHistory.password.
Passwords == {<<"p">>, <<"q">>}
\* two call slots: the calls that may be in flight together
Procs == {1, 2}
\* array ids: this.history and one array per call in flight
ArrIds == {1, 2, 3}
\* the two services of stored and decrypted vault objects
Svcs == {"collection", "folder"}

None == <<>>
Some(x) == <<x>>

\* new PasswordHistory(password, date)
PasswordHistory(password, date) == [password |-> password, date |-> date]

(* ------------------------------------------------------------------ *)
(* The crypto collaborator: a working encryption stub.                 *)
(* encrypt(s).encryptedString is a token "2.<...>" that is never equal *)
(* to s; decrypt(new CipherString(token)) gives s back.                *)
(* ------------------------------------------------------------------ *)
Encrypt(s) == <<"2.">> \o s
IsCipher(s) == Len(s) > 0 /\ Head(s) = "2."
Decrypt(c) == Tail(c)

\* the callback of history.map in encryptHistory
EncryptItemLeak(item) == PasswordHistory(item.password, item.date)
EncryptItem(item) == PasswordHistory(Encrypt(item.password), item.date)

\* the callback of history.map in decryptHistory
DecryptItem(item) == PasswordHistory(Decrypt(item.password), item.date)

\* encryptHistory, once every per-entry promise has been joined
EncryptHistory(history) ==
    IF Len(history) = 0 THEN <<>>
    ELSE [i \in 1..Len(history) |-> EncryptItem(history[i])]

\* decryptHistory on the value storage.get returned (None is null)
DecryptHistory(stored) ==
    IF stored = None \/ Len(stored[1]) = 0 THEN <<>>
    ELSE [i \in 1..Len(stored[1]) |-> DecryptItem(stored[1][i])]

MatchesPreviousNever(password, history) == FALSE
MatchesPreviousAny(password, history) ==
    \E i \in 1..Len(history) : history[i].password = password
MatchesPrevious(password, history) ==
    IF Len(history) = 0 THEN FALSE
    ELSE history[Len(history)].password = password

\* currentHistory.push(entry); if (length > MaxPasswordsInHistory) shift()
PushEvictNewest(history, entry) ==
    IF Len(history) + 1 > MaxPasswordsInHistory THEN history
    ELSE Append(history, entry)
PushEvict(history, entry) ==
    IF Len(history) + 1 > MaxPasswordsInHistory
    THEN Tail(Append(history, entry))
    ELSE Append(history, entry)

(* ------------------------------------------------------------------ *)
(* State                                                               *)
(* ------------------------------------------------------------------ *)
VARIABLES
    key,            \* TRUE iff cryptoService.getKey() gives a key
    store,          \* storage under Keys.history: None, or Some(list)
    arrays,         \* the heap: array id -> its entries
    history,        \* this.history: an array id (0 would be null)
    now,            \* the last reading of Date.now()
    pc,             \* per call: the await it is suspended at, or "idle"
    op,             \* per call: the method running (or last run)
    password,       \* per call: the argument of addHistory
    hasKey,         \* per call: the local hasKey
    currentHistory, \* per call: the array getHistory returned (0: none)
    snap,           \* per call: the entries encryptHistory was called with
    ret,            \* per call: how the last call ended, and its value
    reads,          \* per call: storageService.get calls it made
    writes,         \* per call: storageService.save/remove calls it made
    crypts,         \* per call: cryptoService.encrypt/decrypt calls it made
    calls,          \* method calls made on the instance so far (0, 1, many)
    afterClear,     \* a clear() has completed and no addHistory or clear was called since
    rtL, rtPc, rtPending, rtEnc, rtDec,  \* SpecRoundTrip: see below
    gPc, gOptions, gO, gPositions, gSeed, gPassword,  \* SpecGen: see below
    optionsCache,   \* this.optionsCache: None (undefined), or Some(options)
    optStore,       \* storage under Keys.options: None, or Some(options)
    optInit,        \* what storage held under Keys.options at construction
    optSaved,       \* the last options given to saveOptions, if any
    optUsed,        \* a getOptions or saveOptions has returned
    oPc, oOp, oArg, oRet, oReads,  \* the running getOptions or saveOptions
    oq,             \* SpecOptRace: per call of getOptions or saveOptions, where it is
    viewOpen,       \* platformUtilsService.isViewOpen()
    orgKeys, privateKey, encKey,   \* the other keys cryptoService holds
    lockOption,     \* storage under lockOptionKey: None, or Some(minutes)
    lastActive,     \* storage under lastActiveKey: None, or Some(ms)
    vNow,           \* (new Date()).getTime()
    vStore,         \* per service: storage under its key, None or Some(map)
    vCache,         \* per service: the decrypted cache, None (null) or Some(views)
    cipherCache,    \* cipherService.decryptedCipherCache, likewise
    lkPc, lkOp,     \* the running checkLock or lock
    lkPending,      \* lock(): the calls of its Promise.all not yet settled
    lkLocal,        \* checkLock(): the lockOption it read
    lkInvoked,      \* the running checkLock or lock has called lock()
    sPc, sSvc, sOp, sArg,     \* the running call of a collection or folder method
    sLocal, sRet,             \* what it read; how it ended
    sReads, sWrites, sKeyChecks,    \* the storage and key calls it made
    sPreStore, sPreCache,     \* what it found stored and cached when called
    sApi            \* the outcome of its apiService call

histvars == <<key, store, arrays, history, now, pc, op, password, hasKey,
              currentHistory, snap, ret, reads, writes,
              crypts, calls, afterClear>>
rtvars == <<rtL, rtPc, rtPending, rtEnc, rtDec>>
genvars == <<gPc, gOptions, gO, gPositions, gSeed, gPassword>>
optvars == <<optionsCache, optStore, optInit, optSaved, optUsed,
             oPc, oOp, oArg, oRet, oReads, oq>>
lockvars == <<viewOpen, orgKeys, privateKey, encKey, lockOption, lastActive,
              vNow, cipherCache, lkPc, lkOp, lkPending, lkLocal, lkInvoked>>
svcvars == <<vStore, vCache, sPc, sSvc, sOp, sArg, sLocal, sRet, sReads, sWrites,
             sKeyChecks, sPreStore, sPreCache, sApi>>
\* the history store without the key
histNoKey == <<store, arrays, history, now, pc, op, password, hasKey,
               currentHistory, snap, ret, reads, writes,
               crypts, calls, afterClear>>
vars == <<key, store, arrays, history, now, pc, op, password, hasKey,
          currentHistory, snap, ret, reads, writes,
          crypts, calls, afterClear, rtL, rtPc, rtPending, rtEnc, rtDec,
          gPc, gOptions, gO, gPositions, gSeed, gPassword,
          optionsCache, optStore, optInit, optSaved, optUsed,
          oPc, oOp, oArg, oRet, oReads, oq,
          viewOpen, orgKeys, privateKey, encKey, lockOption, lastActive,
          vNow, cipherCache, lkPc, lkOp, lkPending, lkLocal, lkInvoked,
          vStore, vCache, sPc, sSvc, sOp, sArg, sLocal, sRet, sReads, sWrites,
          sKeyChecks, sPreStore, sPreCache, sApi>>

\* if (!this.history): an array, even an empty one, is truthy
Truthy(ref) == ref \in ArrIds

RECURSIVE SeqsUpTo(_, _)
SeqsUpTo(S, n) ==
    IF n = 0 THEN {<<>>}
    ELSE LET shorter == SeqsUpTo(S, n - 1)
         IN  shorter \cup {Append(s, x) : s \in {t \in shorter : Len(t) = n - 1}, x \in S}

\* What an earlier instance may have left under Keys.history: nothing, or
\* the encryption of a non-empty list (addHistory never saves an empty one).
PriorStores ==
    {None} \cup
    {Some(EncryptHistory(h)) :
        h \in {l \in SeqsUpTo({PasswordHistory(pw, 0) : pw \in Passwords}, MaxPrior) :
                  Len(l) > 0}}

\* private history: PasswordHistory[] = [];  optionsCache is not modelled here
InitHistory ==
    /\ key \in BOOLEAN
    /\ store \in PriorStores
    /\ history = 1
    /\ arrays = [i \in ArrIds |-> <<>>]
    /\ now = 0
    /\ pc = [p \in Procs |-> "idle"]
    /\ op = [p \in Procs |-> "none"]
    /\ password = [p \in Procs |-> <<>>]
    /\ hasKey = [p \in Procs |-> FALSE]
    /\ currentHistory = [p \in Procs |-> 0]
    /\ snap = [p \in Procs |-> <<>>]
    /\ ret = [p \in Procs |-> [out |-> "none", value |-> <<>>]]
    /\ reads = [p \in Procs |-> 0]
    /\ writes = [p \in Procs |-> 0]
    /\ crypts = [p \in Procs |-> 0]
    /\ calls = 0
    /\ afterClear = FALSE

RtIdle ==
    /\ rtL = <<>>
    /\ rtPc = "off"
    /\ rtPending = {}
    /\ rtEnc = <<>>
    /\ rtDec = <<>>

\* no generatePassword call is running
GenIdle ==
    /\ gPc = "idle"
    /\ gOptions = <<>>
    /\ gO = <<>>
    /\ gPositions = <<>>
    /\ gSeed = <<>>
    /\ gPassword = <<>>

\* a call slot of SpecOptRace with no call in it
OptCallIdle == [pc |-> "idle", op |-> "none", arg |-> None, val |-> None]

\* no getOptions or saveOptions is running, no options are stored
OptIdle ==
    /\ optionsCache = None
    /\ optStore = None
    /\ optInit = None
    /\ optSaved = None
    /\ optUsed = FALSE
    /\ oPc = "idle"
    /\ oOp = "none"
    /\ oArg = None
    /\ oRet = None
    /\ oReads = 0
    /\ oq = [p \in Procs |-> OptCallIdle]

\* no service call is running; nothing stored, nothing cached, no key but
\* the one of the history model
VaultIdle ==
    /\ viewOpen = FALSE
    /\ orgKeys = FALSE /\ privateKey = FALSE /\ encKey = FALSE
    /\ lockOption = None
    /\ lastActive = None
    /\ vNow = 0
    /\ vStore = [svc \in Svcs |-> None]
    /\ vCache = [svc \in Svcs |-> None]
    /\ cipherCache = None
    /\ lkPc = "idle" /\ lkOp = "none" /\ lkPending = {}
    /\ lkLocal = None /\ lkInvoked = FALSE
    /\ sPc = "idle" /\ sSvc = "none" /\ sOp = "none"
    /\ sArg = None /\ sLocal = None /\ sRet = None
    /\ sReads = 0 /\ sWrites = 0 /\ sKeyChecks = 0
    /\ sPreStore = None /\ sPreCache = None /\ sApi = "none"

\* the variables a history operation leaves alone
offHistory == <<rtvars, genvars, optvars, lockvars, svcvars>>
\* the variables encryptHistory and decryptHistory leave alone
offRoundTrip == <<histvars, genvars, optvars, lockvars, svcvars>>

Init == InitHistory /\ RtIdle /\ GenIdle /\ OptIdle /\ VaultIdle

\* the same, the vault unlocked
InitKeyed == Init /\ key = TRUE

(* ------------------------------------------------------------------ *)
(* The heap                                                            *)
(* ------------------------------------------------------------------ *)
\* the ids some reference still reaches, given this.history and the locals
Live(h, cur) == {h} \cup {cur[q] : q \in Procs}

\* garbage collection: an array nothing refers to holds nothing
Collect(arr, h, cur) ==
    [i \in ArrIds |-> IF i \in Live(h, cur) THEN arr[i] ELSE <<>>]

\* new Array(): the least id nothing refers to (p's own local is being replaced)
NewArray(p) ==
    LET used == {history} \cup {currentHistory[q] : q \in Procs \ {p}}
        free == ArrIds \ used
    IN  CHOOSE i \in free : \A j \in free : i <= j

(* ------------------------------------------------------------------ *)
(* Calls                                                               *)
(* ------------------------------------------------------------------ *)
\* A method is called: in a concurrent specification whenever a call slot
\* is free, in a sequential one only when no call is in progress.  Slots
\* only name the calls in flight, so a call takes the lowest free slot.
CanCall(p, concurrent) ==
    /\ pc[p] = "idle"
    /\ \A q \in Procs : q < p => pc[q] # "idle"
    /\ concurrent \/ \A q \in Procs : pc[q] = "idle"

Begin(p, method, pw) ==
    /\ op' = [op EXCEPT ![p] = method]
    /\ password' = [password EXCEPT ![p] = pw]
    /\ calls' = IF calls < 2 THEN calls + 1 ELSE calls
    /\ UNCHANGED <<hasKey, snap, ret, reads, crypts>>

\* the call's promise settles: it returned (or threw) and its locals die
End(p, out, value, h, arr) ==
    /\ pc' = [pc EXCEPT ![p] = "done"]
    /\ ret' = [ret EXCEPT ![p] = [out |-> out, value |-> value]]
    /\ currentHistory' = [currentHistory EXCEPT ![p] = 0]
    /\ history' = h
    /\ arrays' = Collect(arr, h, [currentHistory EXCEPT ![p] = 0])

\* the caller's continuation takes the result
Return(p) ==
    /\ pc[p] = "done"
    /\ pc' = [pc EXCEPT ![p] = "idle"]
    /\ op' = [op EXCEPT ![p] = "none"]
    /\ password' = [password EXCEPT ![p] = <<>>]
    /\ hasKey' = [hasKey EXCEPT ![p] = FALSE]
    /\ snap' = [snap EXCEPT ![p] = <<>>]
    /\ ret' = [ret EXCEPT ![p] = [out |-> "none", value |-> <<>>]]
    /\ reads' = [reads EXCEPT ![p] = 0]
    /\ writes' = [writes EXCEPT ![p] = 0]
    /\ crypts' = [crypts EXCEPT ![p] = 0]
    /\ UNCHANGED <<key, store, arrays, history, now, currentHistory, calls>>
    /\ UNCHANGED afterClear

(* ------------------------------------------------------------------ *)
(* getHistory                                                          *)
(* ------------------------------------------------------------------ *)
\* The body of getHistory after `await this.cryptoService.getKey()`.  The
\* branch `if (!this.history)` holds two more awaits (storage.get and
\* decryptHistory); they are folded into this step.
MustLoad == key /\ ~Truthy(history)

\* storageService.get calls and decrypt calls getHistory makes
GetHistoryReads == IF MustLoad THEN 1 ELSE 0
GetHistoryCrypts == IF MustLoad THEN Len(DecryptHistory(store)) ELSE 0

\* this.history after getHistory
GetHistoryThis(p) == IF MustLoad THEN NewArray(p) ELSE history

\* the array getHistory returns: `new Array<PasswordHistory>()` without a
\* key, else `this.history || new Array<PasswordHistory>()`
GetHistoryRefShared(p) == IF Truthy(GetHistoryThis(p)) THEN GetHistoryThis(p) ELSE NewArray(p)
GetHistoryRef(p) ==
    IF ~key THEN NewArray(p)
    ELSE IF Truthy(GetHistoryThis(p)) THEN GetHistoryThis(p) ELSE NewArray(p)

\* the heap after getHistory
GetHistoryArrays(p) ==
    IF ~key THEN [arrays EXCEPT ![NewArray(p)] = <<>>]
    ELSE IF MustLoad THEN [arrays EXCEPT ![NewArray(p)] = DecryptHistory(store)]
    ELSE arrays

CallGetHistory(p, concurrent) ==
    /\ CanCall(p, concurrent)
    /\ Begin(p, "getHistory", <<>>)
    /\ UNCHANGED writes
    /\ pc' = [pc EXCEPT ![p] = "gh_key"]
    /\ UNCHANGED <<key, store, arrays, history, now, currentHistory>>
    /\ UNCHANGED afterClear

GetHistoryKey(p) ==
    /\ pc[p] = "gh_key"
    /\ hasKey' = [hasKey EXCEPT ![p] = key]
    /\ reads' = [reads EXCEPT ![p] = @ + GetHistoryReads]
    /\ crypts' = [crypts EXCEPT ![p] = @ + GetHistoryCrypts]
    /\ End(p, IF ~key THEN "nokey" ELSE IF MustLoad THEN "loaded" ELSE "cached",
           GetHistoryArrays(p)[GetHistoryRef(p)],
           GetHistoryThis(p), GetHistoryArrays(p))
    /\ UNCHANGED <<key, store, now, op, password, snap, 
                   writes, calls>>
    /\ UNCHANGED afterClear

(* ------------------------------------------------------------------ *)
(* addHistory                                                          *)
(* ------------------------------------------------------------------ *)
CallAddHistory(p, pw, concurrent, maxHist) ==
    /\ CanCall(p, concurrent)
    /\ Len(arrays[history]) < maxHist
    /\ Begin(p, "addHistory", pw)
    /\ UNCHANGED writes
    /\ pc' = [pc EXCEPT ![p] = "ah_key"]
    /\ UNCHANGED <<key, store, arrays, history, now, currentHistory>>
    /\ afterClear' = FALSE

\* const hasKey = (await this.cryptoService.getKey()) != null;
\* if (!hasKey) return;   else getHistory() is called and awaits getKey()
AddKeyUnchecked(p) ==
    /\ pc[p] = "ah_key"
    /\ hasKey' = [hasKey EXCEPT ![p] = key]
    /\ pc' = [pc EXCEPT ![p] = "ah_hist"]
    /\ UNCHANGED <<key, store, arrays, history, now, op, password,
                   currentHistory, snap, ret, reads,
                   writes, crypts, calls, afterClear>>
AddKey(p) ==
    /\ pc[p] = "ah_key"
    /\ hasKey' = [hasKey EXCEPT ![p] = key]
    /\ IF key
       THEN /\ pc' = [pc EXCEPT ![p] = "ah_hist"]
            /\ UNCHANGED <<arrays, history, currentHistory, ret>>
       ELSE End(p, "nokey", <<>>, history, arrays)
    /\ UNCHANGED <<key, store, now, op, password, snap, 
                   reads, writes, crypts, calls>>
    /\ UNCHANGED afterClear

\* const currentHistory = await this.getHistory();  (the body of getHistory)
AddGetHistory(p) ==
    /\ pc[p] = "ah_hist"
    /\ currentHistory' = [currentHistory EXCEPT ![p] = GetHistoryRef(p)]
    /\ history' = GetHistoryThis(p)
    /\ arrays' = Collect(GetHistoryArrays(p), history', currentHistory')
    /\ reads' = [reads EXCEPT ![p] = @ + GetHistoryReads]
    /\ crypts' = [crypts EXCEPT ![p] = @ + GetHistoryCrypts]
    /\ pc' = [pc EXCEPT ![p] = "ah_push"]
    /\ UNCHANGED <<key, store, now, op, password, hasKey, snap, ret, writes, calls>>
    /\ UNCHANGED afterClear

\* matchesPrevious, push, shift, and the call of encryptHistory, whose map
\* reads every entry and issues every encrypt before the first await.
\* Date.now() is read here and nowhere else: it gives some t in `times`,
\* none earlier than the last reading.
AddPush(p, times) ==
    /\ pc[p] = "ah_push"
    /\ LET current == arrays[currentHistory[p]]
       IN  IF MatchesPrevious(password[p], current)
           THEN /\ End(p, "dup", <<>>, history, arrays)
                /\ UNCHANGED <<snap, crypts, now>>
           ELSE \E t \in times :
                LET pushed == PushEvict(current, PasswordHistory(password[p], t))
                IN  /\ t >= now
                    /\ now' = t
                    /\ arrays' = [arrays EXCEPT ![currentHistory[p]] = pushed]
                    /\ snap' = [snap EXCEPT ![p] = pushed]
                    /\ crypts' = [crypts EXCEPT ![p] = @ + Len(pushed)]
                    /\ pc' = [pc EXCEPT ![p] = "ah_enc"]
                    /\ UNCHANGED <<history, currentHistory, ret>>
    /\ UNCHANGED <<key, store, op, password, hasKey, reads, writes, calls>>
    /\ UNCHANGED afterClear

\* what storageService.save(Keys.history, newHistory) is given
SavedValueLive(p) == EncryptHistory(arrays[currentHistory[p]])
SavedValue(p) == EncryptHistory(snap[p])

\* Promise.all of the encrypt calls settles: newHistory is there and
\* storageService.save is issued.  cryptoService.encrypt fails without a
\* key, and then addHistory throws.
AddEncrypted(p) ==
    /\ pc[p] = "ah_enc"
    /\ IF key
       THEN /\ store' = Some(SavedValue(p))
            /\ writes' = [writes EXCEPT ![p] = @ + 1]
            /\ pc' = [pc EXCEPT ![p] = "ah_save"]
            /\ UNCHANGED <<arrays, history, currentHistory, ret>>
       ELSE /\ End(p, "failed", <<>>, history, arrays)
            /\ UNCHANGED <<store, writes>>
    /\ UNCHANGED <<key, now, op, password, hasKey, snap, 
                   reads, crypts, calls>>
    /\ UNCHANGED afterClear

\* return await this.storageService.save(...): the save is acknowledged
AddSaved(p) ==
    /\ pc[p] = "ah_save"
    /\ End(p, "saved", <<>>, history, arrays)
    /\ UNCHANGED <<key, store, now, op, password, hasKey, snap, reads, writes, crypts, calls>>
    /\ UNCHANGED afterClear

(* ------------------------------------------------------------------ *)
(* clear                                                               *)
(* ------------------------------------------------------------------ *)
\* this.history = []; storageService.remove(Keys.history) is issued
ClearStoreKept == store
ClearStore == None

\* a clear() that removes the stored history and keeps this.history
CallClearStorageOnly(p, concurrent) ==
    /\ CanCall(p, concurrent)
    /\ Begin(p, "clear", <<>>)
    /\ store' = ClearStore
    /\ writes' = [writes EXCEPT ![p] = 1]
    /\ pc' = [pc EXCEPT ![p] = "cl_rem"]
    /\ UNCHANGED <<key, now, currentHistory, history, arrays>>
    /\ afterClear' = FALSE

CallClear(p, concurrent) ==
    /\ CanCall(p, concurrent)
    /\ Begin(p, "clear", <<>>)
    /\ history' = NewArray(p)
    /\ arrays' = Collect([arrays EXCEPT ![NewArray(p)] = <<>>], history', currentHistory)
    /\ store' = ClearStore
    /\ writes' = [writes EXCEPT ![p] = 1]
    /\ pc' = [pc EXCEPT ![p] = "cl_rem"]
    /\ UNCHANGED <<key, now, currentHistory>>
    /\ afterClear' = FALSE

\* the remove is acknowledged
ClearDone(p) ==
    /\ pc[p] = "cl_rem"
    /\ End(p, "cleared", <<>>, history, arrays)
    /\ UNCHANGED <<key, store, now, op, password, hasKey, snap, reads, writes, crypts, calls>>
    /\ afterClear' = TRUE

(* ------------------------------------------------------------------ *)
(* The environment                                                     *)
(* ------------------------------------------------------------------ *)
\* the vault is locked (cryptoService.clearKey) or unlocked
Lock ==
    /\ key
    /\ key' = FALSE
    /\ UNCHANGED <<store, arrays, history, now, pc, op, password, hasKey,
                   currentHistory, snap, ret, reads,
                   writes, crypts, calls>>
    /\ UNCHANGED afterClear

Unlock ==
    /\ ~key
    /\ key' = TRUE
    /\ UNCHANGED <<store, arrays, history, now, pc, op, password, hasKey,
                   currentHistory, snap, ret, reads,
                   writes, crypts, calls>>
    /\ UNCHANGED afterClear

(* ------------------------------------------------------------------ *)
(* Specifications                                                      *)
(* ------------------------------------------------------------------ *)
\* Spec: calls overlap freely at their awaits; the key stays available.
Next ==
    \/ \E p \in Procs : CallGetHistory(p, TRUE) /\ UNCHANGED offHistory
    \/ \E p \in Procs : GetHistoryKey(p) /\ UNCHANGED offHistory
    \/ \E p \in Procs, pw \in Passwords :
          CallAddHistory(p, pw, TRUE, MaxHist) /\ UNCHANGED offHistory
    \/ \E p \in Procs : AddKey(p) /\ UNCHANGED offHistory
    \/ \E p \in Procs : AddGetHistory(p) /\ UNCHANGED offHistory
    \/ \E p \in Procs : AddPush(p, 0..MaxTime) /\ UNCHANGED offHistory
    \/ \E p \in Procs : AddEncrypted(p) /\ UNCHANGED offHistory
    \/ \E p \in Procs : AddSaved(p) /\ UNCHANGED offHistory
    \/ \E p \in Procs : CallClear(p, TRUE) /\ UNCHANGED offHistory
    \/ \E p \in Procs : ClearDone(p) /\ UNCHANGED offHistory
    \/ \E p \in Procs : Return(p) /\ UNCHANGED offHistory

Spec == InitKeyed /\ [][Next]_vars

\* SpecSeq: one call at a time (each is awaited before the next is made);
\* the key comes and goes at any await.
NextSeq ==
    \/ \E p \in Procs : CallGetHistory(p, FALSE) /\ UNCHANGED offHistory
    \/ \E p \in Procs : GetHistoryKey(p) /\ UNCHANGED offHistory
    \/ \E p \in Procs, pw \in Passwords :
          CallAddHistory(p, pw, FALSE, MaxSeqHist) /\ UNCHANGED offHistory
    \/ \E p \in Procs : AddKey(p) /\ UNCHANGED offHistory
    \/ \E p \in Procs : AddGetHistory(p) /\ UNCHANGED offHistory
    \/ \E p \in Procs : AddPush(p, 0..MaxTime) /\ UNCHANGED offHistory
    \/ \E p \in Procs : AddEncrypted(p) /\ UNCHANGED offHistory
    \/ \E p \in Procs : AddSaved(p) /\ UNCHANGED offHistory
    \/ \E p \in Procs : CallClear(p, FALSE) /\ UNCHANGED offHistory
    \/ \E p \in Procs : ClearDone(p) /\ UNCHANGED offHistory
    \/ \E p \in Procs : Return(p) /\ UNCHANGED offHistory
    \/ Lock /\ UNCHANGED offHistory
    \/ Unlock /\ UNCHANGED offHistory

SpecSeq == Init /\ [][NextSeq]_vars

\* SpecCap: addHistory and clear, one call at a time, the key available,
\* every push at a later millisecond than the one before (so that every
\* entry is told from every other), until the clock reads CapClock.
NextCap ==
    \/ \E p \in Procs, pw \in Passwords :
          CallAddHistory(p, pw, FALSE, MaxPasswordsInHistory + 1) /\ UNCHANGED offHistory
    \/ \E p \in Procs : AddKey(p) /\ UNCHANGED offHistory
    \/ \E p \in Procs : AddGetHistory(p) /\ UNCHANGED offHistory
    \/ \E p \in Procs : AddPush(p, {t \in {now + 1} : t <= CapClock}) /\ UNCHANGED offHistory
    \/ \E p \in Procs : AddEncrypted(p) /\ UNCHANGED offHistory
    \/ \E p \in Procs : AddSaved(p) /\ UNCHANGED offHistory
    \/ \E p \in Procs : CallClear(p, FALSE) /\ UNCHANGED offHistory
    \/ \E p \in Procs : ClearDone(p) /\ UNCHANGED offHistory
    \/ \E p \in Procs : Return(p) /\ UNCHANGED offHistory

SpecCap == InitKeyed /\ [][NextCap]_vars

(* ------------------------------------------------------------------ *)
(* encryptHistory and decryptHistory, entry by entry                   *)
(* ------------------------------------------------------------------ *)
\* SpecRoundTrip runs decryptHistory(encryptHistory(rtL)) with the fan-out
\* spelled out: history.map starts one promise per entry, the promises
\* settle in any order, and Promise.all gives the values by index.
\*   rtPc       where the run is
\*   rtPending  the indices whose promise has not settled
\*   rtEnc      the values of encryptHistory's promises, then its result
\*   rtDec      the values of decryptHistory's promises, then its result
RtLists ==
    SeqsUpTo({PasswordHistory(pw, d) : pw \in Passwords, d \in 0..MaxTime}, MaxLen)

InitRoundTrip ==
    /\ InitHistory /\ key = TRUE /\ store = None
    /\ GenIdle /\ OptIdle /\ VaultIdle
    /\ rtL \in RtLists
    /\ rtPc = "start"
    /\ rtPending = {}
    /\ rtEnc = <<>>
    /\ rtDec = <<>>

\* Promise.all: the value of promise i is element i of the result
SettleInCompletionOrder(results, i, v) ==
    LET k == CHOOSE j \in 1..Len(results) :
                 /\ results[j] = None
                 /\ \A m \in 1..(j - 1) : results[m] # None
    IN  [results EXCEPT ![k] = Some(v)]
Settle(results, i, v) == [results EXCEPT ![i] = Some(v)]

Joined(results) == [i \in 1..Len(results) |-> results[i][1]]

\* encryptHistory(rtL) is called
RtEncryptCall ==
    /\ rtPc = "start"
    /\ IF Len(rtL) = 0
       THEN /\ rtPc' = "encrypted"
            /\ UNCHANGED <<rtPending, rtEnc>>
       ELSE /\ rtPc' = "encrypting"
            /\ rtPending' = 1..Len(rtL)
            /\ rtEnc' = [i \in 1..Len(rtL) |-> None]
    /\ UNCHANGED <<rtL, rtDec>>

\* the encrypt of entry i settles
RtEncryptSettle(i) ==
    /\ rtPc = "encrypting"
    /\ i \in rtPending
    /\ rtEnc' = Settle(rtEnc, i, EncryptItem(rtL[i]))
    /\ rtPending' = rtPending \ {i}
    /\ UNCHANGED <<rtL, rtPc, rtDec>>

\* await Promise.all(promises) in encryptHistory
RtEncryptJoin ==
    /\ rtPc = "encrypting"
    /\ rtPending = {}
    /\ rtEnc' = Joined(rtEnc)
    /\ rtPc' = "encrypted"
    /\ UNCHANGED <<rtL, rtPending, rtDec>>

\* decryptHistory(rtEnc) is called
RtDecryptCall ==
    /\ rtPc = "encrypted"
    /\ IF Len(rtEnc) = 0
       THEN /\ rtPc' = "done"
            /\ UNCHANGED <<rtPending, rtDec>>
       ELSE /\ rtPc' = "decrypting"
            /\ rtPending' = 1..Len(rtEnc)
            /\ rtDec' = [i \in 1..Len(rtEnc) |-> None]
    /\ UNCHANGED <<rtL, rtEnc>>

\* the decrypt of entry i settles
RtDecryptSettle(i) ==
    /\ rtPc = "decrypting"
    /\ i \in rtPending
    /\ rtDec' = Settle(rtDec, i, DecryptItem(rtEnc[i]))
    /\ rtPending' = rtPending \ {i}
    /\ UNCHANGED <<rtL, rtPc, rtEnc>>

\* await Promise.all(promises) in decryptHistory
RtDecryptJoin ==
    /\ rtPc = "decrypting"
    /\ rtPending = {}
    /\ rtDec' = Joined(rtDec)
    /\ rtPc' = "done"
    /\ UNCHANGED <<rtL, rtPending, rtEnc>>

NextRoundTrip ==
    \/ RtEncryptCall /\ UNCHANGED offRoundTrip
    \/ \E i \in 1..MaxLen : RtEncryptSettle(i) /\ UNCHANGED offRoundTrip
    \/ RtEncryptJoin /\ UNCHANGED offRoundTrip
    \/ RtDecryptCall /\ UNCHANGED offRoundTrip
    \/ \E i \in 1..MaxLen : RtDecryptSettle(i) /\ UNCHANGED offRoundTrip
    \/ RtDecryptJoin /\ UNCHANGED offRoundTrip

SpecRoundTrip == InitRoundTrip /\ [][NextRoundTrip]_vars

(* ------------------------------------------------------------------ *)
(* generatePassword                                                    *)
(*                                                                     *)
(* A string is a sequence of one-character strings.  A JavaScript      *)
(* number that may also be undefined is a sequence: <<n>> or <<>>.     *)
(* An options object is a function from the keys it has to their       *)
(* values.                                                             *)
(* ------------------------------------------------------------------ *)
Num(n) == <<n>>
Undefined == <<>>

DefaultOptions ==
    [length |-> Num(14), ambiguous |-> FALSE,
     number |-> TRUE, minNumber |-> 1,
     uppercase |-> TRUE, minUppercase |-> 1,
     lowercase |-> TRUE, minLowercase |-> 1,
     special |-> FALSE, minSpecial |-> 1]

\* const o = Object.assign({}, DefaultOptions, options);
Assign(options) ==
    [f \in DOMAIN DefaultOptions |->
        IF f \in DOMAIN options THEN options[f] ELSE DefaultOptions[f]]

\* if (o.uppercase && o.minUppercase < 0) { o.minUppercase = 1; }
SanitizeMin(enabled, min) == IF enabled /\ min < 0 THEN 1 ELSE min

Sanitize(o) ==
    [o EXCEPT !.minUppercase = SanitizeMin(o.uppercase, o.minUppercase),
              !.minLowercase = SanitizeMin(o.lowercase, o.minLowercase),
              !.minNumber = SanitizeMin(o.number, o.minNumber),
              !.minSpecial = SanitizeMin(o.special, o.minSpecial)]

\* if (!o.length || o.length < 1) { o.length = 10; }
LengthOrTen(o) ==
    IF o.length = Undefined \/ o.length[1] = 0 \/ o.length[1] < 1
    THEN 10
    ELSE o.length[1]

\* const minLength = o.minUppercase + o.minLowercase + o.minNumber + o.minSpecial;
MinLength(o) == o.minUppercase + o.minLowercase + o.minNumber + o.minSpecial

\* if (o.length < minLength) { o.length = minLength; }
NormalLength(o) ==
    IF LengthOrTen(o) < MinLength(o) THEN MinLength(o) ELSE LengthOrTen(o)

\* o as it is after line 58 (its length a plain number from here on)
Normalize(options) ==
    LET o == Sanitize(Assign(options))
    IN  [o EXCEPT !.length = NormalLength(o)]

\* if (o.lowercase && o.minLowercase > 0) { for (...) positions.push('l'); }
ClassPositions(enabled, min, tag) ==
    IF enabled /\ min > 0 THEN [i \in 1..min |-> tag] ELSE <<>>

\* positions, before the shuffle
Positions(o) ==
    LET classes == ClassPositions(o.lowercase, o.minLowercase, "l")
                   \o ClassPositions(o.uppercase, o.minUppercase, "u")
                   \o ClassPositions(o.number, o.minNumber, "n")
                   \o ClassPositions(o.special, o.minSpecial, "s")
    IN  classes \o [i \in 1..(o.length - Len(classes)) |-> "a"]

\* the character sets
Ambiguous(o, chars) == IF o.ambiguous THEN chars ELSE <<>>

LowercaseCharSetAmbiguous(o) ==
    <<"a", "b", "c", "d", "e", "f", "g", "h", "i", "j", "k", "m", "n",
      "o", "p", "q", "r", "s", "t", "u", "v", "w", "x", "y", "z">> \o <<"l">>
LowercaseCharSet(o) ==
    <<"a", "b", "c", "d", "e", "f", "g", "h", "i", "j", "k", "m", "n",
      "o", "p", "q", "r", "s", "t", "u", "v", "w", "x", "y", "z">>
    \o Ambiguous(o, <<"l">>)

UppercaseCharSet(o) ==
    <<"A", "B", "C", "D", "E", "F", "G", "H", "I", "J", "K", "L", "M",
      "N", "P", "Q", "R", "S", "T", "U", "V", "W", "X", "Y", "Z">>
    \o Ambiguous(o, <<"O">>)

NumberCharSet(o) ==
    <<"2", "3", "4", "5", "6", "7", "8", "9">> \o Ambiguous(o, <<"0", "1">>)

SpecialCharSet == <<"!", "@", "#", "$", "%", "^", "&", "*">>

Enabled(on, chars) == IF on THEN chars ELSE <<>>

AllCharSet(o) ==
    Enabled(o.lowercase, LowercaseCharSet(o))
    \o Enabled(o.uppercase, UppercaseCharSet(o))
    \o Enabled(o.number, NumberCharSet(o))
    \o Enabled(o.special, SpecialCharSet)

\* switch (positions[i])
PositionChars(o, tag) ==
    CASE tag = "l" -> LowercaseCharSet(o)
      [] tag = "u" -> UppercaseCharSet(o)
      [] tag = "n" -> NumberCharSet(o)
      [] tag = "s" -> SpecialCharSet
      [] tag = "a" -> AllCharSet(o)

(* The random source.  UtilsService.secureRandomNumber(min, max) gives  *)
(* any integer of min..max.  A run of generatePassword reads its draws  *)
(* from one of a bounded family of streams: stream (fromEnd, s) gives,  *)
(* as the draw number i (from 0) out of 0..max, the number              *)
(* s * (i + 1) mod (max + 1), counted from 0 or back from max.          *)
Seeds == [fromEnd : BOOLEAN, s : 0..MaxSeed]

SecureRandomNumber(seed, i, max) ==
    LET v == (seed.s * (i + 1)) % (max + 1)
    IN  IF seed.fromEnd THEN max - v ELSE v

\* positions.sort(() => secureRandomNumber(0, 1) * 2 - 1): some
\* rearrangement of positions; here a rotation or the reversal
Rotate(s, k) == [i \in 1..Len(s) |-> s[((i - 1 + k) % Len(s)) + 1]]
Reverse(s) == [i \in 1..Len(s) |-> s[Len(s) + 1 - i]]
Shuffles(s) == {Rotate(s, k) : k \in 0..MaxShuffle} \cup {Reverse(s)}

\* positionChars.charAt(randomCharIndex); '' when positionChars is ''
CharAt(chars, seed, i) ==
    IF Len(chars) = 0
    THEN <<>>
    ELSE <<chars[SecureRandomNumber(seed, i, Len(chars) - 1) + 1]>>

\* for (let i = 0; i < o.length; i++) { ... password += ...; }
RECURSIVE Password(_, _, _, _)
Password(o, positions, seed, i) ==
    IF i >= o.length
    THEN <<>>
    ELSE CharAt(PositionChars(o, positions[i + 1]), seed, i)
         \o Password(o, positions, seed, i + 1)

\* some draw of the loop is out of an empty character set
DrawsFromEmpty(o, positions) ==
    \E i \in 1..o.length : Len(PositionChars(o, positions[i])) = 0

\* the options generatePassword is called with
GenMins == {0 - 1, 0, MaxMin}
GenLengths == {Undefined} \cup {Num(n) : n \in 0..MaxGenLen}
GenOptions ==
    LET given == [ambiguous : BOOLEAN,
                  number : BOOLEAN, minNumber : GenMins,
                  uppercase : BOOLEAN, minUppercase : GenMins,
                  lowercase : BOOLEAN, minLowercase : GenMins,
                  special : BOOLEAN, minSpecial : GenMins]
    IN  given \cup {g @@ [length |-> l] : g \in given, l \in GenLengths}

\* generatePassword(options) up to the shuffle (lines 35 to 83)
GenCall ==
    /\ gPc = "idle"
    /\ \E options \in GenOptions :
          /\ gOptions' = options
          /\ gO' = Normalize(options)
          /\ gPositions' = Positions(Normalize(options))
    /\ gPc' = "shuffle"
    /\ UNCHANGED <<gSeed, gPassword>>

\* the shuffle (lines 86 to 88)
GenShuffle ==
    /\ gPc = "shuffle"
    /\ gPositions' \in Shuffles(gPositions)
    /\ gPc' = "draw"
    /\ UNCHANGED <<gOptions, gO, gSeed, gPassword>>

\* the character sets and the loop (lines 91 to 147)
GenDraw ==
    /\ gPc = "draw"
    /\ \E seed \in Seeds :
          /\ gSeed' = seed
          /\ gPassword' = Password(gO, gPositions, seed, 0)
    /\ gPc' = "returned"
    /\ UNCHANGED <<gOptions, gO, gPositions>>

\* the same when secureRandomNumber(0, -1) does not return: no range to
\* draw from
GenDrawFails ==
    /\ gPc = "draw"
    /\ DrawsFromEmpty(gO, gPositions)
    /\ gPc' = "failed"
    /\ UNCHANGED <<gOptions, gO, gPositions, gSeed, gPassword>>

\* the caller has the result
GenReturn ==
    /\ gPc \in {"returned", "failed"}
    /\ gPc' = "idle"
    /\ gOptions' = <<>>
    /\ gO' = <<>>
    /\ gPositions' = <<>>
    /\ gSeed' = <<>>
    /\ gPassword' = <<>>

offGen == <<histvars, rtvars, optvars, lockvars, svcvars>>

InitGen == InitHistory /\ key = TRUE /\ store = None /\ RtIdle /\ GenIdle /\ OptIdle /\ VaultIdle

NextGen ==
    \/ GenCall /\ UNCHANGED offGen
    \/ GenShuffle /\ UNCHANGED offGen
    \/ GenDraw /\ UNCHANGED offGen
    \/ GenDrawFails /\ UNCHANGED offGen
    \/ GenReturn /\ UNCHANGED offGen

SpecGen == InitGen /\ [][NextGen]_vars

(* ------------------------------------------------------------------ *)
(* getOptions and saveOptions, one call at a time                      *)
(* ------------------------------------------------------------------ *)
\* the options objects saved, or left in storage by an earlier instance
OptionValues ==
    {[DefaultOptions EXCEPT !.length = l, !.minNumber = m] :
        l \in {Num(0), Num(MaxGenLen)}, m \in {0 - 1, MaxMin}}

\* optionsCache starts undefined; storage holds what an earlier instance saved
InitOptions ==
    /\ optionsCache = None
    /\ optStore \in {None} \cup {Some(o) : o \in OptionValues}
    /\ optInit = optStore
    /\ optSaved = None
    /\ optUsed = FALSE
    /\ oPc = "idle"
    /\ oOp = "none"
    /\ oArg = None
    /\ oRet = None
    /\ oReads = 0

\* getOptions(): if (this.optionsCache == null) { await storageService.get(...)
CallGetOptions ==
    /\ oPc = "idle"
    /\ oOp' = "getOptions"
    /\ IF optionsCache = None
       THEN /\ oPc' = "go_get"
            /\ oReads' = 1
            /\ UNCHANGED oRet
       ELSE /\ oPc' = "done"
            /\ oRet' = optionsCache
            /\ UNCHANGED oReads 
    /\ UNCHANGED <<optionsCache, optStore, optInit, optSaved, optUsed, oArg>>

\* ... the read settles: the cache is the stored options, or the defaults
GetOptionsLoaded ==
    /\ oPc = "go_get"
    /\ optionsCache' = IF optStore = None THEN Some(DefaultOptions) ELSE optStore
    /\ oRet' = optionsCache'
    /\ oPc' = "done"
    /\ UNCHANGED <<optStore, optInit, optSaved, optUsed, oOp, oArg, oReads>>

\* what saveOptions hands to storageService.save
SavedOptionsSanitized(options) == Sanitize(Assign(options))
SavedOptions(options) == options

\* saveOptions(options): await this.storageService.save(Keys.options, options);
CallSaveOptions(options) ==
    /\ oPc = "idle"
    /\ oOp' = "saveOptions"
    /\ oArg' = Some(options)
    /\ optSaved' = Some(options)
    /\ optStore' = Some(SavedOptions(options))
    /\ oPc' = "so_save"
    /\ UNCHANGED <<optionsCache, optInit, optUsed, oRet, oReads>>

\* ... the save settles: this.optionsCache = options;
SaveOptionsSaved ==
    /\ oPc = "so_save"
    /\ optionsCache' = oArg
    /\ oPc' = "done"
    /\ UNCHANGED <<optStore, optInit, optSaved, optUsed, oOp, oArg, oRet, oReads>>

\* the caller has the result
OptReturn ==
    /\ oPc = "done"
    /\ oPc' = "idle"
    /\ oOp' = "none"
    /\ oArg' = None
    /\ oRet' = None
    /\ oReads' = 0
    /\ optUsed' = TRUE
    /\ UNCHANGED <<optionsCache, optStore, optInit, optSaved>>

offOptions == <<histvars, rtvars, genvars, lockvars, svcvars, oq>>

InitOpt ==
    /\ InitHistory /\ key = TRUE /\ store = None
    /\ RtIdle /\ GenIdle /\ VaultIdle /\ InitOptions
    /\ oq = [p \in Procs |-> OptCallIdle]

NextOpt ==
    \/ CallGetOptions /\ UNCHANGED offOptions
    \/ GetOptionsLoaded /\ UNCHANGED offOptions
    \/ \E options \in OptionValues : CallSaveOptions(options) /\ UNCHANGED offOptions
    \/ SaveOptionsSaved /\ UNCHANGED offOptions
    \/ OptReturn /\ UNCHANGED offOptions

SpecOpt == InitOpt /\ [][NextOpt]_vars

(* ------------------------------------------------------------------ *)
(* CollectionService and FolderService                                 *)
(*                                                                     *)
(* The two services have the same code but for the names; svc is       *)
(* "collection" or "folder".  The stored value is a map from ids to    *)
(* data objects, the decrypted cache a list of views, of which the     *)
(* order is not modelled: it is the set of its views.                  *)
(* ------------------------------------------------------------------ *)
Ids == {"a", "b"}
Names == {<<"x">>, <<"y">>}

\* a CollectionData or FolderData (the name encrypted), and its view
Data(id, name) == [id |-> id, name |-> Encrypt(name)]
View(data) == [id |-> data.id, name |-> Decrypt(data.name)]
DataValues == {Data(id, name) : id \in Ids, name \in Names}

\* const noneFolder = new FolderView(); noneFolder.name = this.noneFolder();
NoneFolder == [id |-> "null", name |-> <<"No Folder">>]

\* the maps { [id: string]: Data }
StoredMaps ==
    UNION {{m \in [S -> DataValues] : \A id \in S : m[id].id = id} : S \in SUBSET Ids}

\* getAll(): the stored objects
GetAll(stored) ==
    IF stored = None THEN {} ELSE {stored[1][id] : id \in DOMAIN stored[1]}

\* getAllDecrypted(): decFolders / decCollections once every decrypt has settled
DecryptedViews(svc, items) ==
    (IF svc = "folder" THEN {NoneFolder} ELSE {}) \cup {View(d) : d \in items}

\* a call of a method of svc may be made
CanCallService(concurrent) ==
    /\ sPc = "idle"
    /\ concurrent \/ lkPc = "idle"

\* the call is made: what it finds is noted
BeginService(svc, method, arg) ==
    /\ sSvc' = svc
    /\ sOp' = method
    /\ sArg' = arg
    /\ sPreStore' = vStore[svc]
    /\ sPreCache' = vCache[svc]

\* the caller has the result
ServiceReturn ==
    /\ sPc = "done"
    /\ sPc' = "idle" /\ sSvc' = "none" /\ sOp' = "none"
    /\ sArg' = None /\ sLocal' = None /\ sRet' = None
    /\ sReads' = 0 /\ sWrites' = 0 /\ sKeyChecks' = 0
    /\ sPreStore' = None /\ sPreCache' = None /\ sApi' = "none"
    /\ UNCHANGED <<key, vStore, vCache>>

\* getAllDecrypted(): if (this.decryptedCollectionCache != null) return it;
\* else await this.cryptoService.getKey()
CacheHitNever(cache) == FALSE
CacheHit(cache) == cache # None

CallGetAllDecrypted(svc, concurrent) ==
    /\ CanCallService(concurrent)
    /\ BeginService(svc, "getAllDecrypted", None)
    /\ IF CacheHit(vCache[svc])
       THEN sPc' = "done" /\ sRet' = [out |-> "ok", value |-> vCache[svc]]
       ELSE sPc' = "gad_key" /\ UNCHANGED sRet
    /\ UNCHANGED <<key, vStore, vCache, sLocal, sReads, sWrites, sKeyChecks, sApi>>

\* if (key == null) throw new Error('No key.'); else await this.getAll()
GetAllDecryptedKey ==
    /\ sPc = "gad_key"
    /\ sKeyChecks' = sKeyChecks + 1
    /\ IF key
       THEN sPc' = "gad_all" /\ UNCHANGED sRet
       ELSE sPc' = "done" /\ sRet' = [out |-> "No key.", value |-> None]
    /\ UNCHANGED <<key, vStore, vCache, sSvc, sOp, sArg, sLocal, sReads, sWrites,
                   sPreStore, sPreCache, sApi>>

\* getAll() reads storage; a decrypt is started for every object
GetAllDecryptedAll ==
    /\ sPc = "gad_all"
    /\ sLocal' = Some(GetAll(vStore[sSvc]))
    /\ sReads' = sReads + 1
    /\ sPc' = "gad_dec"
    /\ UNCHANGED <<key, vStore, vCache, sSvc, sOp, sArg, sRet, sWrites, sKeyChecks,
                   sPreStore, sPreCache, sApi>>

\* await Promise.all(promises); sort; this.decryptedCollectionCache = decCollections
GetAllDecryptedDone ==
    /\ sPc = "gad_dec"
    /\ vCache' = [vCache EXCEPT ![sSvc] = Some(DecryptedViews(sSvc, sLocal[1]))]
    /\ sRet' = [out |-> "ok", value |-> vCache'[sSvc]]
    /\ sPc' = "done"
    /\ UNCHANGED <<key, vStore, sSvc, sOp, sArg, sLocal, sReads, sWrites, sKeyChecks,
                   sPreStore, sPreCache, sApi>>

(* ------------------------------------------------------------------ *)
(* LockService                                                         *)
(* ------------------------------------------------------------------ *)
Minute == 60 * 1000

\* the readings of the clock, and the lock options stored (minutes)
ClockTimes == {t \in {k * Minute + d : k \in 0..MaxLockMin, d \in {0 - 1, 0}} : t >= 0}
LockOptions == {None} \cup {Some(n) : n \in (0 - 1)..MaxLockMin}

\* if (diffSeconds >= lockOptionSeconds), the two sides in milliseconds
ElapsedNever(diff, option) == FALSE
ElapsedMore(diff, option) == diff > option * Minute
ElapsedEnough(diff, option) == diff >= option * Minute

\* the calls lock() hands to Promise.all
LockCalls == {"clearKey", "clearOrgKeys", "clearPrivateKey", "clearEncKey",
              "setIcon", "refreshBadgeAndMenu"}

\* await Promise.all([...]) goes on
JoinReadyAny(pending) == TRUE
JoinReady(pending) == pending = {}

svcNoCache == <<vStore, sPc, sSvc, sOp, sArg, sLocal, sRet, sReads, sWrites,
                sKeyChecks, sPreStore, sPreCache, sApi>>
lockEnv == <<viewOpen, lockOption, lastActive, vNow>>
allKeys == <<key, orgKeys, privateKey, encKey>>
allCaches == <<vCache, cipherCache>>

CanCallLock(concurrent) ==
    /\ lkPc = "idle"
    /\ concurrent \/ sPc = "idle"

\* checkLock(): if (this.platformUtilsService.isViewOpen()) return;
\* else await this.cryptoService.getKey()
CallCheckLock(concurrent) ==
    /\ CanCallLock(concurrent)
    /\ lkOp' = "checkLock"
    /\ lkPc' = IF viewOpen THEN "done" ELSE "ck_key"
    /\ UNCHANGED <<lockEnv, allKeys, allCaches, lkPending, lkLocal, lkInvoked>>

\* if (key == null) return; else await storageService.get(lockOptionKey)
CheckLockKey ==
    /\ lkPc = "ck_key"
    /\ lkPc' = IF key THEN "ck_opt" ELSE "done"
    /\ UNCHANGED <<lockEnv, allKeys, allCaches, lkOp, lkPending, lkLocal, lkInvoked>>

\* if (lockOption == null || lockOption < 0) return;
\* else await storageService.get(lastActiveKey)
CheckLockOption ==
    /\ lkPc = "ck_opt"
    /\ lkLocal' = lockOption
    /\ lkPc' = IF lockOption = None \/ lockOption[1] < 0 THEN "done" ELSE "ck_last"
    /\ UNCHANGED <<lockEnv, allKeys, allCaches, lkOp, lkPending, lkInvoked>>

\* if (lastActive == null) return; if (diffSeconds >= lockOptionSeconds)
\* await this.lock(): the six calls of its Promise.all are made
CheckLockLastActive ==
    /\ lkPc = "ck_last"
    /\ IF lastActive # None /\ ElapsedEnough(vNow - lastActive[1], lkLocal[1])
       THEN /\ lkPc' = "lk_all"
            /\ lkPending' = LockCalls
            /\ lkInvoked' = TRUE
       ELSE /\ lkPc' = "done"
            /\ UNCHANGED <<lkPending, lkInvoked>>
    /\ UNCHANGED <<lockEnv, allKeys, allCaches, lkOp, lkLocal>>

\* lock() is called by the application (lock now)
CallLock(concurrent) ==
    /\ CanCallLock(concurrent)
    /\ lkOp' = "lock"
    /\ lkPc' = "lk_all"
    /\ lkPending' = LockCalls
    /\ lkInvoked' = TRUE
    /\ UNCHANGED <<lockEnv, allKeys, allCaches, lkLocal>>

\* one of the six calls does its work and settles
LockSettle(call) ==
    /\ lkPc \in {"lk_all", "failed"}
    /\ call \in lkPending
    /\ lkPending' = lkPending \ {call}
    /\ key' = IF call = "clearKey" THEN FALSE ELSE key
    /\ orgKeys' = IF call = "clearOrgKeys" THEN FALSE ELSE orgKeys
    /\ privateKey' = IF call = "clearPrivateKey" THEN FALSE ELSE privateKey
    /\ encKey' = IF call = "clearEncKey" THEN FALSE ELSE encKey
    /\ UNCHANGED <<lockEnv, allCaches, lkPc, lkOp, lkLocal, lkInvoked>>

\* one of the six calls rejects: so does Promise.all, and lock() throws
LockRejects(call) ==
    /\ lkPc = "lk_all"
    /\ call \in lkPending
    /\ lkPending' = lkPending \ {call}
    /\ lkPc' = "failed"
    /\ UNCHANGED <<lockEnv, allKeys, allCaches, lkOp, lkLocal, lkInvoked>>

\* all six have settled: folderService.clearCache();
\* cipherService.clearCache(); collectionService.clearCache();
LockJoin ==
    /\ lkPc = "lk_all"
    /\ JoinReady(lkPending)
    /\ vCache' = [svc \in Svcs |-> None]
    /\ cipherCache' = None
    /\ lkPc' = "done"
    /\ UNCHANGED <<lockEnv, allKeys, lkOp, lkPending, lkLocal, lkInvoked>>

\* the caller of checkLock or lock has the result
LockReturn ==
    /\ lkPc = "done" \/ (lkPc = "failed" /\ lkPending = {})
    /\ lkPc' = "idle"
    /\ lkOp' = "none"
    /\ lkPending' = {}
    /\ lkLocal' = None
    /\ lkInvoked' = FALSE
    /\ UNCHANGED <<lockEnv, allKeys, allCaches>>

\* time passes (no step of lock() reads the clock)
Tick ==
    /\ lkPc \notin {"lk_all", "failed"}
    /\ \E t \in ClockTimes : t > vNow /\ vNow' = t
    /\ UNCHANGED <<viewOpen, lockOption, lastActive, allKeys, allCaches,
                   lkPc, lkOp, lkPending, lkLocal, lkInvoked>>

\* no call running
Quiet == lkPc = "idle" /\ sPc = "idle"

\* a view is opened or closed
ViewToggle ==
    /\ Quiet
    /\ viewOpen' = ~viewOpen
    /\ UNCHANGED <<lockOption, lastActive, vNow, allKeys, allCaches,
                   lkPc, lkOp, lkPending, lkLocal, lkInvoked>>

\* the user unlocks the vault: cryptoService has its keys again
VaultUnlock ==
    /\ Quiet
    /\ ~key
    /\ key' = TRUE /\ orgKeys' = TRUE /\ privateKey' = TRUE /\ encKey' = TRUE
    /\ UNCHANGED <<lockEnv, allCaches, lkPc, lkOp, lkPending, lkLocal, lkInvoked>>

\* the user sets the lock option
SetLockOption(option) ==
    /\ Quiet
    /\ option # lockOption
    /\ lockOption' = option
    /\ UNCHANGED <<viewOpen, lastActive, vNow, allKeys, allCaches,
                   lkPc, lkOp, lkPending, lkLocal, lkInvoked>>

\* the user is active: lastActive is stored
Activity ==
    /\ Quiet
    /\ lastActive # Some(vNow)
    /\ lastActive' = Some(vNow)
    /\ UNCHANGED <<viewOpen, lockOption, vNow, allKeys, allCaches,
                   lkPc, lkOp, lkPending, lkLocal, lkInvoked>>

\* cipherService.getAllDecrypted() fills its cache
CipherCacheLoaded ==
    /\ Quiet
    /\ key /\ cipherCache = None
    /\ cipherCache' = Some("ciphers")
    /\ vCache' = vCache
    /\ UNCHANGED <<lockEnv, allKeys, lkPc, lkOp, lkPending, lkLocal, lkInvoked>>

offLock == <<histNoKey, rtvars, genvars, optvars, svcNoCache>>
offService == <<histNoKey, rtvars, genvars, optvars, lockvars>>

\* the services as LockService is constructed: unlocked or not, one
\* object stored for each service
InitLock ==
    /\ InitHistory /\ store = None /\ RtIdle /\ GenIdle /\ OptIdle
    /\ viewOpen = FALSE
    /\ orgKeys = key /\ privateKey = key /\ encKey = key
    /\ lockOption \in LockOptions
    /\ lastActive = None
    /\ vNow = 0
    /\ vStore = [svc \in Svcs |-> Some([id \in {"a"} |-> Data("a", <<"x">>)])]
    /\ vCache = [svc \in Svcs |-> None]
    /\ cipherCache = None
    /\ lkPc = "idle" /\ lkOp = "none" /\ lkPending = {}
    /\ lkLocal = None /\ lkInvoked = FALSE
    /\ sPc = "idle" /\ sSvc = "none" /\ sOp = "none"
    /\ sArg = None /\ sLocal = None /\ sRet = None
    /\ sReads = 0 /\ sWrites = 0 /\ sKeyChecks = 0
    /\ sPreStore = None /\ sPreCache = None /\ sApi = "none"

\* SpecLock: checkLock, lock and getAllDecrypted, one call at a time; time
\* passes at any await, the rest of the environment changes between calls.
NextLock ==
    \/ CallCheckLock(FALSE) /\ UNCHANGED offLock
    \/ CheckLockKey /\ UNCHANGED offLock
    \/ CheckLockOption /\ UNCHANGED offLock
    \/ CheckLockLastActive /\ UNCHANGED offLock
    \/ CallLock(FALSE) /\ UNCHANGED offLock
    \/ \E call \in LockCalls : LockSettle(call) /\ UNCHANGED offLock
    \/ \E call \in LockCalls : LockRejects(call) /\ UNCHANGED offLock
    \/ LockJoin /\ UNCHANGED offLock
    \/ LockReturn /\ UNCHANGED offLock
    \/ Tick /\ UNCHANGED offLock
    \/ ViewToggle /\ UNCHANGED offLock
    \/ VaultUnlock /\ UNCHANGED offLock
    \/ \E option \in LockOptions : SetLockOption(option) /\ UNCHANGED offLock
    \/ Activity /\ UNCHANGED offLock
    \/ CipherCacheLoaded /\ UNCHANGED offLock
    \/ \E svc \in Svcs : CallGetAllDecrypted(svc, FALSE) /\ UNCHANGED offService
    \/ GetAllDecryptedKey /\ UNCHANGED offService
    \/ GetAllDecryptedAll /\ UNCHANGED offService
    \/ GetAllDecryptedDone /\ UNCHANGED offService
    \/ ServiceReturn /\ UNCHANGED offService

SpecLock == InitLock /\ [][NextLock]_vars

(* ------------------------------------------------------------------ *)
(* upsert, replace, clear, delete; saveWithServer, deleteWithServer    *)
(* ------------------------------------------------------------------ *)
\* the arguments: an object or an array of objects (here a sequence of
\* one or more), an id or an array of ids (here a set), a folder not yet
\* on the server (its id null) or on it
UpsertArgs == {xs \in SeqsUpTo(DataValues, MaxUpsert) : Len(xs) > 0}
DeleteArgs == SUBSET Ids
Folders == {[id |-> id, name |-> Encrypt(name)] : id \in Ids \cup {"null"}, name \in Names}

\* collections[c.id] = c, for the object or for every object of the array
UpsertIntoFresh(map, xs) ==
    [id \in {xs[i].id : i \in 1..Len(xs)} |->
        xs[CHOOSE i \in 1..Len(xs) :
              xs[i].id = id /\ \A j \in (i + 1)..Len(xs) : xs[j].id # id]]
UpsertInto(map, xs) ==
    [id \in DOMAIN map \cup {xs[i].id : i \in 1..Len(xs)} |->
        IF \E i \in 1..Len(xs) : xs[i].id = id
        THEN xs[CHOOSE i \in 1..Len(xs) :
                   xs[i].id = id /\ \A j \in (i + 1)..Len(xs) : xs[j].id # id]
        ELSE map[id]]

\* delete collections[id], for the id or for every id of the array
DeleteFrom(map, ids) == [id \in DOMAIN map \ ids |-> map[id]]

\* upsert(collection): await getUserId(); await storageService.get(...)
CallUpsert(svc, xs, concurrent) ==
    /\ CanCallService(concurrent)
    /\ BeginService(svc, "upsert", Some(xs))
    /\ sPc' = "up_get"
    /\ UNCHANGED <<key, vStore, vCache, sLocal, sRet, sReads, sWrites, sKeyChecks, sApi>>

\* the stored map is read: if (collections == null) collections = {};
UpsertGet ==
    /\ sPc = "up_get"
    /\ sLocal' = IF vStore[sSvc] = None THEN Some(<<>>) ELSE vStore[sSvc]
    /\ sReads' = sReads + 1
    /\ sPc' = "up_put"
    /\ UNCHANGED <<key, vStore, vCache, sSvc, sOp, sArg, sRet, sWrites, sKeyChecks,
                   sPreStore, sPreCache, sApi>>

\* the objects are put in the map; await storageService.save(..., collections)
UpsertPut ==
    /\ sPc = "up_put"
    /\ vStore' = [vStore EXCEPT ![sSvc] = Some(UpsertInto(sLocal[1], sArg[1]))]
    /\ sWrites' = sWrites + 1
    /\ sPc' = "fin"
    /\ UNCHANGED <<key, vCache, sSvc, sOp, sArg, sLocal, sRet, sReads, sKeyChecks,
                   sPreStore, sPreCache, sApi>>

\* the save or remove is acknowledged: this.decryptedCollectionCache = null;
CacheNulled ==
    /\ sPc = "fin"
    /\ vCache' = [vCache EXCEPT ![sSvc] = None]
    /\ sRet' = [out |-> "ok", value |-> None]
    /\ sPc' = "done"
    /\ UNCHANGED <<key, vStore, sSvc, sOp, sArg, sLocal, sReads, sWrites, sKeyChecks,
                   sPreStore, sPreCache, sApi>>

\* replace(collections): await getUserId()
CallReplace(svc, map, concurrent) ==
    /\ CanCallService(concurrent)
    /\ BeginService(svc, "replace", Some(map))
    /\ sPc' = "rep_put"
    /\ UNCHANGED <<key, vStore, vCache, sLocal, sRet, sReads, sWrites, sKeyChecks, sApi>>

\* await storageService.save(..., collections)
ReplacePut ==
    /\ sPc = "rep_put"
    /\ vStore' = [vStore EXCEPT ![sSvc] = sArg]
    /\ sWrites' = sWrites + 1
    /\ sPc' = "fin"
    /\ UNCHANGED <<key, vCache, sSvc, sOp, sArg, sLocal, sRet, sReads, sKeyChecks,
                   sPreStore, sPreCache, sApi>>

\* clear(userId), for the user logged in: await storageService.remove(...)
CallClearService(svc, concurrent) ==
    /\ CanCallService(concurrent)
    /\ BeginService(svc, "clear", None)
    /\ vStore' = [vStore EXCEPT ![svc] = None]
    /\ sWrites' = sWrites + 1
    /\ sPc' = "fin"
    /\ UNCHANGED <<key, vCache, sLocal, sRet, sReads, sKeyChecks, sApi>>

\* delete(id): await getUserId(); await storageService.get(...)
CallDelete(svc, ids, concurrent) ==
    /\ CanCallService(concurrent)
    /\ BeginService(svc, "delete", Some(ids))
    /\ sPc' = "del_get"
    /\ UNCHANGED <<key, vStore, vCache, sLocal, sRet, sReads, sWrites, sKeyChecks, sApi>>

\* the stored map is read: if (collections == null) return;
DeleteGet ==
    /\ sPc = "del_get"
    /\ sReads' = sReads + 1
    /\ IF vStore[sSvc] = None
       THEN /\ sPc' = "done"
            /\ sRet' = [out |-> "ok", value |-> None]
            /\ UNCHANGED sLocal
       ELSE /\ sPc' = "del_put"
            /\ sLocal' = vStore[sSvc]
            /\ UNCHANGED sRet
    /\ UNCHANGED <<key, vStore, vCache, sSvc, sOp, sArg, sWrites, sKeyChecks,
                   sPreStore, sPreCache, sApi>>

\* the ids are deleted from the map; await storageService.save(..., collections)
DeletePut ==
    /\ sPc = "del_put"
    /\ vStore' = [vStore EXCEPT ![sSvc] = Some(DeleteFrom(sLocal[1], sArg[1]))]
    /\ sWrites' = sWrites + 1
    /\ sPc' = "fin"
    /\ UNCHANGED <<key, vCache, sSvc, sOp, sArg, sLocal, sRet, sReads, sKeyChecks,
                   sPreStore, sPreCache, sApi>>

\* saveWithServer(folder): await apiService.postFolder(request), or
\* putFolder(folder.id, request) when folder.id is not null
CallSaveWithServer(folder, concurrent) ==
    /\ CanCallService(concurrent)
    /\ BeginService("folder", "saveWithServer", Some(<<folder>>))
    /\ sApi' = IF folder.id = "null" THEN "postFolder" ELSE "putFolder"
    /\ sPc' = "api"
    /\ UNCHANGED <<key, vStore, vCache, sLocal, sRet, sReads, sWrites, sKeyChecks>>

\* deleteWithServer(id): await apiService.deleteFolder(id)
CallDeleteWithServer(id, concurrent) ==
    /\ CanCallService(concurrent)
    /\ BeginService("folder", "deleteWithServer", Some({id}))
    /\ sApi' = "deleteFolder"
    /\ sPc' = "api"
    /\ UNCHANGED <<key, vStore, vCache, sLocal, sRet, sReads, sWrites, sKeyChecks>>

\* where the method goes on once the server call has settled, ok or not:
\* to upsert(data), to delete(id), or out with the failure
AfterApiIgnored(method, ok) ==
    IF method = "saveWithServer" THEN "up_get" ELSE "del_get"
AfterApi(method, ok) ==
    IF ~ok THEN "done"
    ELSE IF method = "saveWithServer" THEN "up_get" ELSE "del_get"

\* response = await ...; folder.id = response.id (after postFolder);
\* const data = new FolderData(response, userId)
Response(folder, serverId) ==
    [folder EXCEPT !.id = IF folder.id = "null" THEN serverId ELSE folder.id]

\* the server call settles
ApiSettles ==
    /\ sPc = "api"
    /\ \E ok \in BOOLEAN, serverId \in Ids :
          /\ sApi' = IF ok THEN "ok" ELSE "failed"
          /\ sPc' = AfterApi(sOp, ok)
          /\ sArg' = IF ok /\ sOp = "saveWithServer"
                     THEN Some(<<Response(sArg[1][1], serverId)>>)
                     ELSE sArg
          /\ sRet' = IF ok THEN sRet ELSE [out |-> "failed", value |-> None]
    /\ UNCHANGED <<key, vStore, vCache, sSvc, sOp, sLocal, sReads, sWrites, sKeyChecks,
                   sPreStore, sPreCache>>

\* cryptoService.clearKey() alone (the caches are left as they are)
KeyCleared ==
    /\ Quiet
    /\ key
    /\ key' = FALSE
    /\ UNCHANGED <<lockEnv, orgKeys, privateKey, encKey, allCaches,
                   lkPc, lkOp, lkPending, lkLocal, lkInvoked>>

\* the two services with nothing stored yet, the vault unlocked or not
InitVault ==
    /\ InitHistory /\ store = None /\ RtIdle /\ GenIdle /\ OptIdle /\ VaultIdle

\* SpecVault: the methods of the two services, one call at a time; the
\* key comes and goes between calls.
NextVault ==
    \/ \E svc \in Svcs : CallGetAllDecrypted(svc, FALSE) /\ UNCHANGED offService
    \/ GetAllDecryptedKey /\ UNCHANGED offService
    \/ GetAllDecryptedAll /\ UNCHANGED offService
    \/ GetAllDecryptedDone /\ UNCHANGED offService
    \/ \E svc \in Svcs, xs \in UpsertArgs : CallUpsert(svc, xs, FALSE) /\ UNCHANGED offService
    \/ UpsertGet /\ UNCHANGED offService
    \/ UpsertPut /\ UNCHANGED offService
    \/ \E svc \in Svcs, map \in StoredMaps : CallReplace(svc, map, FALSE) /\ UNCHANGED offService
    \/ ReplacePut /\ UNCHANGED offService
    \/ \E svc \in Svcs : CallClearService(svc, FALSE) /\ UNCHANGED offService
    \/ \E svc \in Svcs, ids \in DeleteArgs : CallDelete(svc, ids, FALSE) /\ UNCHANGED offService
    \/ DeleteGet /\ UNCHANGED offService
    \/ DeletePut /\ UNCHANGED offService
    \/ CacheNulled /\ UNCHANGED offService
    \/ \E folder \in Folders : CallSaveWithServer(folder, FALSE) /\ UNCHANGED offService
    \/ \E id \in Ids : CallDeleteWithServer(id, FALSE) /\ UNCHANGED offService
    \/ ApiSettles /\ UNCHANGED offService
    \/ ServiceReturn /\ UNCHANGED offService
    \/ KeyCleared /\ UNCHANGED offLock
    \/ VaultUnlock /\ UNCHANGED offLock

SpecVault == InitVault /\ [][NextVault]_vars

(* ------------------------------------------------------------------ *)
(* lock() while a getAllDecrypted() is suspended                       *)
(* ------------------------------------------------------------------ *)
\* One of the decrypts rejects, and so does the Promise.all of
\* getAllDecrypted: the cache is not assigned.  The decrypt of a view is
\* not in these sources; with the key gone it may settle either way.
GetAllDecryptedRejects ==
    /\ sPc = "gad_dec"
    /\ ~key
    /\ sRet' = [out |-> "failed", value |-> None]
    /\ sPc' = "done"
    /\ UNCHANGED <<key, vStore, vCache, sSvc, sOp, sArg, sLocal, sReads, sWrites,
                   sKeyChecks, sPreStore, sPreCache, sApi>>

\* the vault unlocked, one object stored for each service, no lock option
InitLockRace ==
    /\ InitLock
    /\ key = TRUE
    /\ lockOption = None

\* SpecLockRace: lock() and getAllDecrypted() of either service, a call of
\* the one made or going on at any await of the other.  The key is lost
\* through lock() only and is back when the user unlocks.
NextLockRace ==
    \/ CallLock(TRUE) /\ UNCHANGED offLock
    \/ \E call \in LockCalls : LockSettle(call) /\ UNCHANGED offLock
    \/ LockJoin /\ UNCHANGED offLock
    \/ LockReturn /\ UNCHANGED offLock
    \/ VaultUnlock /\ UNCHANGED offLock
    \/ \E svc \in Svcs : CallGetAllDecrypted(svc, TRUE) /\ UNCHANGED offService
    \/ GetAllDecryptedKey /\ UNCHANGED offService
    \/ GetAllDecryptedAll /\ UNCHANGED offService
    \/ GetAllDecryptedDone /\ UNCHANGED offService
    \/ GetAllDecryptedRejects /\ UNCHANGED offService
    \/ ServiceReturn /\ UNCHANGED offService

SpecLockRace == InitLockRace /\ [][NextLockRace]_vars

(* ------------------------------------------------------------------ *)
(* getOptions and saveOptions, calls overlapping                       *)
(*                                                                     *)
(* A call is made whenever a slot is free, and goes on whenever the    *)
(* request it awaits has settled.  Storage does a save when it is      *)
(* issued and a get at some time before it settles; requests settle in *)
(* any order.                                                          *)
(* ------------------------------------------------------------------ *)
\* getOptions(): if (this.optionsCache == null) storageService.get is issued,
\* else the cache is returned
GetOptionsCalled(p) ==
    /\ oq[p].pc = "idle"
    /\ \A q \in Procs : q < p => oq[q].pc # "idle"
    /\ oq' = [oq EXCEPT ![p] =
                IF optionsCache = None
                THEN [pc |-> "go_get", op |-> "getOptions", arg |-> None, val |-> None]
                ELSE [pc |-> "done", op |-> "getOptions", arg |-> None,
                      val |-> optionsCache]]
    /\ UNCHANGED <<optionsCache, optStore>>

\* storage reads the value under Keys.options
GetOptionsRead(p) ==
    /\ oq[p].pc = "go_get"
    /\ oq' = [oq EXCEPT ![p].pc = "go_got", ![p].val = optStore]
    /\ UNCHANGED <<optionsCache, optStore>>

\* the get settles: if (options == null) this.optionsCache = DefaultOptions;
\* else this.optionsCache = options;  return this.optionsCache
GetOptionsSettled(p) ==
    /\ oq[p].pc = "go_got"
    /\ optionsCache' = IF oq[p].val = None THEN Some(DefaultOptions) ELSE oq[p].val
    /\ oq' = [oq EXCEPT ![p].pc = "done", ![p].val = optionsCache']
    /\ UNCHANGED optStore

\* saveOptions(options): storageService.save(Keys.options, options) is issued
SaveOptionsCalled(p, options) ==
    /\ oq[p].pc = "idle"
    /\ \A q \in Procs : q < p => oq[q].pc # "idle"
    /\ optStore' = Some(SavedOptions(options))
    /\ oq' = [oq EXCEPT ![p] =
                [pc |-> "so_save", op |-> "saveOptions", arg |-> Some(options),
                 val |-> None]]
    /\ UNCHANGED optionsCache

\* the save settles: this.optionsCache = options;
SaveOptionsSettled(p) ==
    /\ oq[p].pc = "so_save"
    /\ optionsCache' = oq[p].arg
    /\ oq' = [oq EXCEPT ![p].pc = "done"]
    /\ UNCHANGED optStore

\* the caller has the result
OptionsReturned(p) ==
    /\ oq[p].pc = "done"
    /\ oq' = [oq EXCEPT ![p] = OptCallIdle]
    /\ UNCHANGED <<optionsCache, optStore>>

offOptRace == <<histvars, rtvars, genvars, lockvars, svcvars,
                optInit, optSaved, optUsed, oPc, oOp, oArg, oRet, oReads>>

NextOptRace ==
    \/ \E p \in Procs : GetOptionsCalled(p) /\ UNCHANGED offOptRace
    \/ \E p \in Procs : GetOptionsRead(p) /\ UNCHANGED offOptRace
    \/ \E p \in Procs : GetOptionsSettled(p) /\ UNCHANGED offOptRace
    \/ \E p \in Procs, options \in OptionValues :
          SaveOptionsCalled(p, options) /\ UNCHANGED offOptRace
    \/ \E p \in Procs : SaveOptionsSettled(p) /\ UNCHANGED offOptRace
    \/ \E p \in Procs : OptionsReturned(p) /\ UNCHANGED offOptRace

SpecOptRace == InitOpt /\ [][NextOptRace]_vars

(* ------------------------------------------------------------------ *)
(* The lock check on its timer                                         *)
(*                                                                     *)
(* The constructor calls checkLock() and sets the interval.  A check   *)
(* (and the lock() it calls) takes less than an interval: the timer    *)
(* finds no check running.  The clock is read in steps of an interval  *)
(* up to AutoLockCap; the user is last active a longest lock option    *)
(* before that.                                                        *)
(* ------------------------------------------------------------------ *)
\* setInterval(() => this.checkLock(), 10 * 1000)
Interval == 10 * 1000

AutoLockCap == (MaxLockMin + 1) * Minute

\* this.checkLock() of the constructor has run to its first await
InitAutoLock ==
    /\ InitHistory /\ store = None /\ RtIdle /\ GenIdle /\ OptIdle
    /\ viewOpen \in BOOLEAN
    /\ orgKeys = key /\ privateKey = key /\ encKey = key
    /\ lockOption \in LockOptions
    /\ lastActive \in {None, Some(0)}
    /\ vNow = 0
    /\ vStore = [svc \in Svcs |-> None]
    /\ vCache = [svc \in Svcs |-> None]
    /\ cipherCache = None
    /\ lkOp = "checkLock"
    /\ lkPc = (IF viewOpen THEN "done" ELSE "ck_key")
    /\ lkPending = {}
    /\ lkLocal = None /\ lkInvoked = FALSE
    /\ sPc = "idle" /\ sSvc = "none" /\ sOp = "none"
    /\ sArg = None /\ sLocal = None /\ sRet = None
    /\ sReads = 0 /\ sWrites = 0 /\ sKeyChecks = 0
    /\ sPreStore = None /\ sPreCache = None /\ sApi = "none"

\* ten seconds later the timer calls checkLock():
\* if (this.platformUtilsService.isViewOpen()) return; else await getKey()
IntervalCheckLock ==
    /\ lkPc = "idle"
    /\ vNow' = (IF vNow < AutoLockCap THEN vNow + Interval ELSE vNow)
    /\ lkOp' = "checkLock"
    /\ lkPc' = (IF viewOpen THEN "done" ELSE "ck_key")
    /\ UNCHANGED <<viewOpen, lockOption, lastActive, allKeys, allCaches,
                   lkPending, lkLocal, lkInvoked>>

\* the user is active: not later than a longest lock option before the cap
ActivityInTime == Activity /\ vNow + MaxLockMin * Minute <= AutoLockCap

NextAutoLock ==
    \/ IntervalCheckLock /\ UNCHANGED offLock
    \/ CheckLockKey /\ UNCHANGED offLock
    \/ CheckLockOption /\ UNCHANGED offLock
    \/ CheckLockLastActive /\ UNCHANGED offLock
    \/ \E call \in LockCalls : LockSettle(call) /\ UNCHANGED offLock
    \/ LockJoin /\ UNCHANGED offLock
    \/ LockReturn /\ UNCHANGED offLock
    \/ ViewToggle /\ UNCHANGED offLock
    \/ VaultUnlock /\ UNCHANGED offLock
    \/ \E option \in LockOptions : SetLockOption(option) /\ UNCHANGED offLock
    \/ ActivityInTime /\ UNCHANGED offLock

\* the timer fires again and again; what a check awaits settles
FairAutoLock ==
    /\ WF_vars(IntervalCheckLock /\ UNCHANGED offLock)
    /\ WF_vars(CheckLockKey /\ UNCHANGED offLock)
    /\ WF_vars(CheckLockOption /\ UNCHANGED offLock)
    /\ WF_vars(CheckLockLastActive /\ UNCHANGED offLock)
    /\ WF_vars(\E call \in LockCalls : LockSettle(call) /\ UNCHANGED offLock)
    /\ WF_vars(LockJoin /\ UNCHANGED offLock)
    /\ WF_vars(LockReturn /\ UNCHANGED offLock)

SpecAutoLock == InitAutoLock /\ [][NextAutoLock]_vars /\ FairAutoLock

(* ------------------------------------------------------------------ *)
(* Properties                                                          *)
(* ------------------------------------------------------------------ *)
\* p was in getHistory's body and the step settled the call
GetHistorySettles(p) == pc[p] = "gh_key" /\ pc'[p] = "done"
\* p pushed its entry (the step from ah_push that is not a duplicate)
Pushes(p) == pc[p] = "ah_push" /\ pc'[p] = "ah_enc"
\* p issued its storageService.save
Saves(p) == pc[p] = "ah_enc" /\ pc'[p] = "ah_save"
\* the entry p pushed: the last one of the list it encrypts
Pushed(p) == snap[p][Len(snap[p])]

\* this.history is never null or undefined: the load branch of getHistory
\* is never taken.
HistoryNeverFalsy == Truthy(history)

\* C1 (SpecSeq).  With an active key, the first getHistory() on a freshly
\* constructed service returns the decryption of the list persisted under
\* 'generatedPasswordHistory'.
C1_FirstGetHistoryReturnsPersisted ==
    \A p \in Procs :
        (pc[p] = "done" /\ op[p] = "getHistory" /\ hasKey[p] /\ calls = 1)
            => ret[p].value = DecryptHistory(store)

\* the password of the last entry persisted (<<>> when there is none)
LastPersisted ==
    LET persisted == DecryptHistory(store)
    IN  IF Len(persisted) = 0 THEN <<>> ELSE persisted[Len(persisted)].password

\* C2 (SpecSeq).  When addHistory(p), with the key active at both of its
\* checks and p different from the last entry (in memory and persisted),
\* saves, the persisted value is every entry that was persisted before, in
\* the same order, followed by the new entry (less the oldest one past 100
\* entries).
C2_SaveKeepsPersistedEntries ==
    [][\A p \in Procs :
          (Saves(p) /\ hasKey[p] /\ currentHistory[p] = history
                    /\ password[p] # LastPersisted)
              => store' = Some(EncryptHistory(
                     PushEvict(DecryptHistory(store), Pushed(p))))]_vars

\* C3 (SpecCap).  The history, in memory and as persisted, never holds
\* more than 100 entries; a push onto a list of exactly 100 entries removes
\* exactly the entry at index 0, keeps the other 99 in their order and
\* puts the new entry last.
AtMostCapacity ==
    /\ \A i \in ArrIds : Len(arrays[i]) <= 100
    /\ store # None => Len(store[1]) <= 100

C3_CapacityAndEviction ==
    /\ AtMostCapacity
    /\ [][/\ AtMostCapacity'
          /\ \A p \in Procs :
                (Pushes(p) /\ Len(arrays[currentHistory[p]]) = 100) =>
                    LET before == arrays[currentHistory[p]]
                        after == arrays'[currentHistory[p]]
                    IN  /\ Len(after) = 100
                        /\ \A i \in 1..99 : after[i] = before[i + 1]
                        /\ after[100] = [password |-> password[p], date |-> now']
                        /\ arrays'[history'] = after]_vars

\* C3 witness: a call pushed onto the 100 entries that storage still shows
\* and has not saved yet: the list it holds is entries 2..100 of the old
\* one and the new entry.
C3_Evicted ==
    \E p \in Procs :
        /\ pc[p] = "ah_enc"
        /\ store # None /\ Len(store[1]) = 100
        /\ Len(arrays[history]) = 100
        /\ arrays[history][1] = DecryptItem(store[1][2])
        /\ arrays[history][99] = DecryptItem(store[1][100])
        /\ arrays[history][100].password = password[p]

\* C4 (SpecSeq).  With the key there at both checks of addHistory(p): when
\* p is the password of the last entry, nothing is added and nothing is
\* written to storage; otherwise (also when p is the password of an older
\* entry) the entry for p is appended.  Only the last entry is compared.
LeavesAddHistoryCheck(p) ==
    pc[p] = "ah_push" /\ pc'[p] # "ah_push" /\ currentHistory[p] = history

C4_OnlyLastEntryCompared ==
    [][\A p \in Procs : LeavesAddHistoryCheck(p) =>
          LET h == arrays[history]
          IN  IF Len(h) > 0 /\ h[Len(h)].password = password[p]
              THEN /\ pc'[p] = "done"
                   /\ ret'[p].out = "dup"
                   /\ arrays'[history'] = h
                   /\ store' = store
                   /\ writes'[p] = 0
                   /\ crypts'[p] = 0
              ELSE /\ pc'[p] = "ah_enc"
                   /\ Len(arrays'[history']) = Len(h) + 1
                   /\ \A i \in 1..Len(h) : arrays'[history'][i] = h[i]
                   /\ arrays'[history'][Len(h) + 1].password = password[p]]_vars

\* C4 witness: p, q, p gave three entries, and p once more ended as a
\* duplicate of the last of them and wrote nothing.
C4_OlderAddedLatestSuppressed ==
    \E p \in Procs :
        /\ pc[p] = "done" /\ op[p] = "addHistory" /\ ret[p].out = "dup"
        /\ writes[p] = 0
        /\ Len(arrays[history]) = 3
        /\ arrays[history][1].password = password[p]
        /\ arrays[history][2].password # password[p]
        /\ arrays[history][3].password = password[p]

\* C5 (Spec).  A save persists the list as it was when its call pushed,
\* not the list as it is when the save is issued, and the acknowledgement
\* of a save leaves storage as it is: of two overlapping calls the one
\* whose save is issued last decides what is persisted.
C5_SavePersistsListAsOfPush ==
    [][\A p \in Procs :
          /\ Pushes(p) => snap'[p] = arrays'[currentHistory[p]]
          /\ Saves(p) =>
                /\ snap[p] = snap'[p]
                /\ store' = Some([i \in 1..Len(snap[p]) |->
                               [password |-> Encrypt(snap[p][i].password),
                                date |-> snap[p][i].date]])
          /\ (pc[p] = "ah_save" /\ pc'[p] = "done") => store' = store]_vars

\* C5 witness, the lost update: both addHistory calls have completed with
\* a save, and the entry one of them added is in this.history and not in
\* the persisted list.
C5_LostUpdate ==
    \E p \in Procs, q \in Procs :
        /\ p # q
        /\ pc[p] = "done" /\ op[p] = "addHistory" /\ ret[p].out = "saved"
        /\ pc[q] = "done" /\ op[q] = "addHistory" /\ ret[q].out = "saved"
        /\ store = Some(EncryptHistory(snap[p]))
        /\ \E i \in 1..Len(arrays[history]) : arrays[history][i] = Pushed(q)
        /\ \A i \in 1..Len(snap[p]) : snap[p][i] # Pushed(q)

\* C6 (SpecSeq).  Once clear() has completed, and until addHistory or
\* clear is called again, storage holds nothing under the history key, the
\* history in memory is empty, and a getHistory() that found the key
\* returns an empty sequence.
C6_ClearThenGetHistoryEmpty ==
    afterClear =>
        /\ store = None
        /\ arrays[history] = <<>>
        /\ \A p \in Procs :
              (pc[p] = "done" /\ op[p] = "getHistory" /\ hasKey[p])
                  => ret[p].value = <<>>

\* C6 witness: entries were added, clear() completed, and the getHistory()
\* after it found the key and has returned.
C6_GetHistoryAfterClear ==
    \E p \in Procs :
        /\ afterClear
        /\ now > 0
        /\ pc[p] = "done" /\ op[p] = "getHistory" /\ hasKey[p]

\* C7 (SpecSeq).  getHistory() (called by itself or by addHistory) that
\* finds no key returns an empty sequence, makes no storage read and no
\* decrypt call, and leaves this.history and its entries as they are.
C7_NoKeyGetHistoryTouchesNothing ==
    [][\A p \in Procs :
          /\ (GetHistorySettles(p) /\ ~key) =>
                /\ ret'[p].value = <<>>
                /\ reads'[p] = 0 /\ crypts'[p] = 0
                /\ history' = history
                /\ arrays'[history'] = arrays[history]
                /\ store' = store
          /\ (pc[p] = "ah_hist" /\ pc'[p] = "ah_push" /\ ~key) =>
                /\ arrays'[currentHistory'[p]] = <<>>
                /\ reads'[p] = 0 /\ crypts'[p] = 0
                /\ history' = history
                /\ arrays'[history'] = arrays[history]
                /\ store' = store]_vars

\* C7 witness: getHistory() found no key and has returned, while the cache
\* holds entries and storage holds a list.
C7_NoKeyWithCacheAndStore ==
    \E p \in Procs :
        /\ pc[p] = "done" /\ op[p] = "getHistory" /\ ~hasKey[p]
        /\ ret[p].value = <<>>
        /\ arrays[history] # <<>>
        /\ store # None

\* C8 (SpecSeq).  addHistory(p) that finds no key at its check returns
\* without failing and has changed nothing: the history in memory and the
\* storage are as before, and it made no storage read, no storage write
\* and no encrypt call.
C8_NoKeyAddHistoryIsNoOp ==
    [][\A p \in Procs :
          (pc[p] = "ah_key" /\ pc'[p] # "ah_key" /\ ~key) =>
              /\ pc'[p] = "done"
              /\ ret'[p].out = "nokey"
              /\ history' = history
              /\ arrays' = arrays
              /\ store' = store
              /\ reads'[p] = 0 /\ writes'[p] = 0 /\ crypts'[p] = 0]_vars

\* C8 witness: addHistory(p) returned for want of a key, the history in
\* memory holding entries.
C8_NoKeyAddHistoryReturned ==
    \E p \in Procs :
        /\ pc[p] = "done" /\ op[p] = "addHistory" /\ ret[p].out = "nokey"
        /\ ~hasKey[p]
        /\ arrays[history] # <<>>

\* C9 (SpecSeq).  Whatever is stored under the history key holds, entry by
\* entry, a ciphertext token and never a plaintext password; and once a
\* call has saved, entry i of the stored list is the token of password i
\* of the list it encrypted, alone, with date i unchanged.
C9_StoredEntriesAreCiphertext ==
    /\ store # None =>
          \A i \in 1..Len(store[1]) :
              /\ IsCipher(store[1][i].password)
              /\ store[1][i].password \notin Passwords
              /\ Decrypt(store[1][i].password) \in Passwords
    /\ \A p \in Procs :
          pc[p] = "ah_save" =>
              /\ store # None
              /\ Len(store[1]) = Len(snap[p])
              /\ \A i \in 1..Len(snap[p]) :
                    /\ store[1][i].password = Encrypt(snap[p][i].password)
                    /\ store[1][i].date = snap[p][i].date

\* C9 witness: a list of two entries with different passwords and
\* different dates has been saved.
C9_SavedTwoEntries ==
    \E p \in Procs :
        /\ pc[p] = "ah_save"
        /\ Len(snap[p]) = 2
        /\ snap[p][1].password # snap[p][2].password
        /\ snap[p][1].date # snap[p][2].date

\* C10 (SpecRoundTrip).  decryptHistory(encryptHistory(L)) is L, entry by
\* entry and in L's order, in whatever order the encrypt and the decrypt
\* promises settle; encryptHistory(L) is the list of the entries' tokens.
C10_RoundTrip ==
    /\ rtPc \in {"encrypted", "decrypting", "done"} =>
          /\ Len(rtEnc) = Len(rtL)
          /\ \A i \in 1..Len(rtL) :
                /\ rtEnc[i].password = Encrypt(rtL[i].password)
                /\ rtEnc[i].date = rtL[i].date
    /\ rtPc = "done" => rtDec = rtL

\* C10 witness: the round trip of a list of at least two entries, the
\* first different from the last, is done.  (Every order of settling is a
\* path to it: see C10_SettledOutOfOrder.)
C10_RoundTripDone ==
    /\ rtPc = "done"
    /\ Len(rtL) >= 2
    /\ rtL[1] # rtL[Len(rtL)]
    /\ rtDec = rtL

\* reached: the last decrypt has settled and the first has not
C10_SettledOutOfOrder ==
    /\ rtPc = "decrypting"
    /\ Len(rtL) >= 2
    /\ rtPending = {1}


\* what getOptions is to return: the last options saved, else the options
\* storage held at construction, else the defaults
OptionsExpected ==
    IF optSaved # None THEN optSaved
    ELSE IF optInit # None THEN optInit
    ELSE Some(DefaultOptions)

\* C11 (SpecOpt).  In a sequential run, getOptions returns the last value
\* given to saveOptions, else the stored value, else the defaults, and
\* reads storage only if it is the first call of either method;
\* saveOptions(o) leaves o itself, not normalized, in storage and in the cache.
C11_OptionsCacheContract ==
    /\ (oPc = "done" /\ oOp = "getOptions") =>
          /\ oRet = OptionsExpected
          /\ optUsed => oReads = 0
    /\ (oPc = "done" /\ oOp = "saveOptions") =>
          /\ optStore = oArg
          /\ optionsCache = oArg

\* C11 witness: getOptions has returned, without a storage read, options
\* saved over other stored options, with a minimum that normalization changes.
C11_GetOptionsAfterSave ==
    /\ oPc = "done" /\ oOp = "getOptions"
    /\ optInit # None /\ optSaved # None /\ optSaved # optInit
    /\ optSaved[1].minNumber < 0
    /\ oRet = optSaved
    /\ oReads = 0

\* the characters of a string, and how many of them are in a set
Chars(str) == {str[i] : i \in 1..Len(str)}
CountIn(str, set) == Cardinality({i \in 1..Len(str) : str[i] \in set})

\* C12 (SpecGen).  For every option set, whatever the toggles,
\* generatePassword returns a string, and its length is the normalized
\* length: the given length (10 when unset or < 1), raised to the sum of
\* the minimums when that is larger.
C12_PasswordHasNormalLength ==
    /\ gPc # "failed"
    /\ gPc = "returned" => Len(gPassword) = gO.length

\* the same with a class enabled: not a claim, the part of C12 that holds
SomeClassEnabledHasNormalLength ==
    (gPc \in {"returned", "failed"}
        /\ (gO.lowercase \/ gO.uppercase \/ gO.number \/ gO.special))
    => (gPc = "returned" /\ Len(gPassword) = gO.length)

\* the normalized minimum of a class, and whether it is enabled
ClassMin(o, tag) ==
    CASE tag = "l" -> o.minLowercase
      [] tag = "u" -> o.minUppercase
      [] tag = "n" -> o.minNumber
      [] tag = "s" -> o.minSpecial
ClassOn(o, tag) ==
    CASE tag = "l" -> o.lowercase
      [] tag = "u" -> o.uppercase
      [] tag = "n" -> o.number
      [] tag = "s" -> o.special

\* C13 (SpecGen).  The password has at least k characters of the set of
\* every enabled class of normalized minimum k, whatever the draws, the
\* shuffle and the toggles and minimums of the other classes.
C13_ClassMinimumsMet ==
    gPc = "returned" =>
        \A tag \in {"l", "u", "n", "s"} :
            ClassOn(gO, tag) =>
                CountIn(gPassword, Chars(PositionChars(gO, tag))) >= ClassMin(gO, tag)

\* the same when no disabled class has a negative minimum: not a claim,
\* the part of C13 that holds
NoNegativeMinimumMet ==
    (gPc = "returned" /\ \A tag \in {"l", "u", "n", "s"} : ClassMin(gO, tag) >= 0) =>
        \A tag \in {"l", "u", "n", "s"} :
            ClassOn(gO, tag) =>
                CountIn(gPassword, Chars(PositionChars(gO, tag))) >= ClassMin(gO, tag)

\* the sum of the minimums of the enabled classes
ActiveMinLength(o) ==
    (IF o.uppercase THEN o.minUppercase ELSE 0)
    + (IF o.lowercase THEN o.minLowercase ELSE 0)
    + (IF o.number THEN o.minNumber ELSE 0)
    + (IF o.special THEN o.minSpecial ELSE 0)

\* C14 (SpecGen).  The normalized length is the given length, 10 when that
\* is unset or < 1, raised to the sum of the minimums of the enabled
\* classes when that sum is larger: the minimum of a disabled class does
\* not change the length.
C14_LengthRaisedToActiveMinimums ==
    gPc \in {"shuffle", "draw", "returned"} =>
        gO.length = IF LengthOrTen(Assign(gOptions)) < ActiveMinLength(gO)
                    THEN ActiveMinLength(gO)
                    ELSE LengthOrTen(Assign(gOptions))

\* C15 (SpecGen).  With ambiguous false the password has none of 0, O, 1
\* and l; and every character of a password is of the character set of an
\* enabled class.
C15_NoAmbiguousOnlyEnabled ==
    gPc = "returned" =>
        /\ ~gO.ambiguous => Chars(gPassword) \cap {"0", "O", "1", "l"} = {}
        /\ \A i \in 1..Len(gPassword) :
              \E tag \in {"l", "u", "n", "s"} :
                  /\ ClassOn(gO, tag)
                  /\ gPassword[i] \in Chars(PositionChars(gO, tag))

\* C15 witness: a password of 10 characters returned with ambiguous false,
\* lowercase and number positions and positions of any class, every draw
\* having been the last character of its set.
C15_UnambiguousPassword ==
    /\ gPc = "returned"
    /\ ~gO.ambiguous
    /\ {"l", "n", "a"} \subseteq Chars(gPositions)
    /\ gSeed.fromEnd /\ gSeed.s = 0
    /\ Len(gPassword) = 10

\* the conditions of checkLock, on what is stored and held
ShouldLock ==
    /\ ~viewOpen
    /\ key
    /\ lockOption # None /\ lockOption[1] >= 0
    /\ lastActive # None
    /\ vNow - lastActive[1] >= lockOption[1] * 60 * 1000

\* C16 (SpecLock).  checkLock() calls lock() exactly when no view is open,
\* there is a key, the lock option is not null and >= 0, lastActive is not
\* null and at least lockOption * 60 seconds have passed since lastActive;
\* otherwise it returns having changed no key and no cache.
C16_CheckLockLocksExactlyWhenDue ==
    [][(lkOp' = "checkLock" /\ lkPc' # lkPc /\ lkPc # "lk_all") =>
          /\ lkPc' = "lk_all" => ShouldLock
          /\ lkPc' = "done" => ~ShouldLock
          /\ UNCHANGED <<allKeys, allCaches>>]_vars

\* C16 witness: checkLock has called lock() when exactly lockOption
\* minutes, not 0, had passed since lastActive.
C16_LockedOnTheMinute ==
    /\ lkOp = "checkLock" /\ lkPc = "lk_all" /\ lkPending = LockCalls
    /\ lockOption # None /\ lockOption[1] > 0
    /\ lastActive # None
    /\ vNow - lastActive[1] = lockOption[1] * 60 * 1000

\* no key is held, no decrypted cache is kept
NoKeys == ~key /\ ~orgKeys /\ ~privateKey /\ ~encKey
NoCaches == cipherCache = None /\ \A svc \in Svcs : vCache[svc] = None

\* C17 (SpecLock).  lock() clears the four keys and the three decrypted
\* caches; no cache is cleared before the four key clearings, setIcon and
\* refreshBadgeAndMenu have all settled; when lock() has returned without
\* failing there is no key and no decrypted cache.
C17_LockClearsKeysThenCaches ==
    /\ (lkPc = "done" /\ lkInvoked) => (NoKeys /\ NoCaches)
    /\ [][(lkPc # "idle" /\ allCaches' # allCaches) =>
             (lkPc = "lk_all" /\ lkPending = {} /\ NoKeys /\ NoCaches')]_vars

\* C17 witness: lock() has cleared the four keys, the three caches are
\* still filled and setIcon has not settled yet.
C17_KeysClearedCachesWaiting ==
    /\ lkPc = "lk_all" /\ lkPending = {"setIcon"}
    /\ NoKeys
    /\ cipherCache # None /\ \A svc \in Svcs : vCache[svc] # None

\* the map a call found stored ({} when nothing was), the map stored now,
\* and the last object of an array with a given id
PreMap == IF sPreStore = None THEN <<>> ELSE sPreStore[1]
NowMap == vStore[sSvc][1]
LastWithId(xs, id) ==
    xs[CHOOSE i \in 1..Len(xs) : xs[i].id = id /\ \A j \in (i + 1)..Len(xs) : xs[j].id # id]

\* an id is stored now as it was stored when the call was made, or not at all
Untouched(id) ==
    /\ id \in DOMAIN NowMap <=> id \in DOMAIN PreMap
    /\ id \in DOMAIN NowMap => NowMap[id] = PreMap[id]

\* C18 (SpecVault).  Called one at a time: upsert(x) stores x under x.id
\* and leaves every other id as it was; delete(ids) removes just those ids,
\* and with nothing stored writes nothing and leaves the decrypted cache as
\* it was; replace(m) stores m and clear() removes the stored map; each of
\* them that wrote to storage leaves the decrypted cache null.
C18_StoredMapUpdates ==
    (sPc = "done" /\ sOp \in {"upsert", "delete", "replace", "clear"}) =>
        /\ sOp = "upsert" =>
              /\ vStore[sSvc] # None
              /\ \A id \in Ids :
                    IF \E i \in 1..Len(sArg[1]) : sArg[1][i].id = id
                    THEN id \in DOMAIN NowMap /\ NowMap[id] = LastWithId(sArg[1], id)
                    ELSE Untouched(id)
        /\ (sOp = "delete" /\ sPreStore = None) =>
              /\ vStore[sSvc] = None
              /\ sWrites = 0
              /\ vCache[sSvc] = sPreCache
        /\ (sOp = "delete" /\ sPreStore # None) =>
              /\ vStore[sSvc] # None
              /\ DOMAIN NowMap = DOMAIN PreMap \ sArg[1]
              /\ \A id \in Ids \ sArg[1] : Untouched(id)
        /\ sOp = "replace" => vStore[sSvc] = sArg
        /\ sOp = "clear" => vStore[sSvc] = None
        /\ sWrites > 0 => vCache[sSvc] = None
        /\ sOp # "delete" => sWrites > 0

\* C18 witness: upsert of an object has returned; its id was stored with
\* another name and another id was stored too, the decrypted cache filled.
C18_UpsertOverStored ==
    /\ sPc = "done" /\ sOp = "upsert"
    /\ Len(sArg[1]) = 1
    /\ sPreStore # None /\ DOMAIN PreMap = Ids
    /\ PreMap[sArg[1][1].id] # sArg[1][1]
    /\ sPreCache # None

\* delete with nothing stored and the decrypted cache filled: reached too
DeleteWithNothingStored ==
    /\ sPc = "done" /\ sOp = "delete"
    /\ sPreStore = None /\ sPreCache # None /\ sArg[1] # {}

\* C19 (SpecVault).  getAllDecrypted(): with the decrypted cache not null
\* it returns the cache and checks no key and reads no storage; with the
\* cache null and no key it fails with 'No key.' and the cache stays null;
\* with the cache null and a key it decrypts every stored object, makes the
\* result the cache and returns it.
C19_GetAllDecryptedCases ==
    (sPc = "done" /\ sOp = "getAllDecrypted") =>
        /\ sPreCache # None =>
              /\ sRet = [out |-> "ok", value |-> sPreCache]
              /\ vCache[sSvc] = sPreCache
              /\ sKeyChecks = 0 /\ sReads = 0
        /\ (sPreCache = None /\ ~key) =>
              /\ sRet.out = "No key."
              /\ vCache[sSvc] = None
        /\ (sPreCache = None /\ key) =>
              /\ sRet.out = "ok"
              /\ sRet.value = vCache[sSvc]
              /\ vCache[sSvc] # None
              /\ {v \in vCache[sSvc][1] : v.id # "null"}
                    = {[id |-> d.id, name |-> Tail(d.name)] : d \in GetAll(vStore[sSvc])}

\* C19 witness: getAllDecrypted() has returned the filled cache while no
\* key was held.
C19_CacheReturnedWithoutKey ==
    /\ sPc = "done" /\ sOp = "getAllDecrypted"
    /\ ~key
    /\ sPreCache # None /\ Cardinality(sPreCache[1]) >= 2
    /\ sRet.value = sPreCache

\* the cache filled from two stored objects: reached too
CacheFilledFromStorage ==
    /\ sPc = "done" /\ sOp = "getAllDecrypted"
    /\ sPreCache = None /\ key
    /\ vStore[sSvc] # None /\ DOMAIN vStore[sSvc][1] = Ids

\* C20 (SpecVault).  saveWithServer and deleteWithServer change what is
\* stored and cached only once the server call has succeeded: after
\* postFolder or putFolder the folder is stored under the id of the
\* response, after deleteFolder the id is removed; when the server call
\* fails, the stored folders and the decrypted cache are as they were.
C20_ServerFirst ==
    sOp \in {"saveWithServer", "deleteWithServer"} =>
        /\ (vStore[sSvc] # sPreStore \/ vCache[sSvc] # sPreCache \/ sWrites > 0 \/ sReads > 0)
              => sApi = "ok"
        /\ (sPc = "done" /\ sApi # "ok") =>
              /\ sApi = "failed" /\ sRet.out = "failed"
              /\ vStore[sSvc] = sPreStore /\ vCache[sSvc] = sPreCache
        /\ (sPc = "done" /\ sApi = "ok" /\ sOp = "saveWithServer") =>
              /\ sArg[1][1].id \in Ids
              /\ vStore[sSvc] # None
              /\ sArg[1][1].id \in DOMAIN NowMap
              /\ NowMap[sArg[1][1].id] = sArg[1][1]
              /\ \A id \in Ids \ {sArg[1][1].id} : Untouched(id)
              /\ vCache[sSvc] = None
        /\ (sPc = "done" /\ sApi = "ok" /\ sOp = "deleteWithServer" /\ sPreStore # None) =>
              /\ DOMAIN NowMap = DOMAIN PreMap \ sArg[1]
              /\ vCache[sSvc] = None

\* C20 witness: deleteWithServer(id) has failed at the server, the folder
\* stored and the decrypted cache filled.
C20_ServerFailedNothingChanged ==
    /\ sPc = "done" /\ sOp = "deleteWithServer" /\ sApi = "failed"
    /\ sPreStore # None /\ sArg[1] \subseteq DOMAIN PreMap
    /\ sPreCache # None

\* a folder with no id saved through postFolder: reached too
SavedThroughPost ==
    /\ sPc = "done" /\ sOp = "saveWithServer" /\ sApi = "ok"
    /\ sPreStore # None /\ DOMAIN PreMap = Ids /\ sPreCache # None


(* ------------------------------------------------------------------ *)
(* C21  Once lock() has completed, and until a key is available again, *)
(* the decrypted collection cache and the decrypted folder cache are   *)
(* null, also when a getAllDecrypted() that had passed its key check   *)
(* was suspended while lock() ran.  Under SpecLockRace the key is lost *)
(* through lock() only: with no key and no lock() before its           *)
(* clearCache calls, a lock() has completed since the key was last     *)
(* there.                                                              *)
(* ------------------------------------------------------------------ *)
LockCompletedNoKeySince == ~key /\ lkPc \notin {"lk_all", "failed"}

C21_CachesStayNullAfterLock ==
    LockCompletedNoKeySince => \A svc \in Svcs : vCache[svc] = None

\* a getAllDecrypted() assigned the cache after lock() had returned
CacheFilledAfterLock ==
    /\ ~key /\ lkPc = "idle"
    /\ sPc = "done" /\ sOp = "getAllDecrypted" /\ sRet.out = "ok"
    /\ vCache[sSvc] # None

(* ------------------------------------------------------------------ *)
(* C22  Under any interleaving of getOptions and saveOptions calls on  *)
(* one instance, once all calls have completed the options cache, when *)
(* non-null, is the value stored under Keys.options (the defaults when *)
(* nothing is stored): a getOptions that started before a              *)
(* saveOptions(o) and finishes after it leaves no older value.         *)
(* ------------------------------------------------------------------ *)
AllOptionsCallsCompleted == \A p \in Procs : oq[p].pc \in {"idle", "done"}

C22_CacheIsStoredValue ==
    (AllOptionsCallsCompleted /\ optionsCache # None)
        => optionsCache = (IF optStore = None THEN Some(DefaultOptions) ELSE optStore)

\* a getOptions finished after the saveOptions called after it, and the
\* cache holds what the getOptions read
OlderValueLeftInCache ==
    \E g, s \in Procs :
        /\ oq[g].op = "getOptions" /\ oq[g].pc = "done"
        /\ oq[s].op = "saveOptions" /\ oq[s].pc = "done"
        /\ optStore = oq[s].arg
        /\ optionsCache = oq[g].val
        /\ optionsCache # optStore

\* with one call at a time the cache is the stored value (SpecOpt)
OneAtATimeCacheIsStoredValue ==
    (oPc \in {"idle", "done"} /\ optionsCache # None)
        => optionsCache = (IF optStore = None THEN Some(DefaultOptions) ELSE optStore)

(* ------------------------------------------------------------------ *)
(* C23  If clear() is called while an addHistory call is in progress,  *)
(* then once both have completed, clear()'s storage removal having     *)
(* been issued after addHistory's save, storage holds no history and   *)
(* the in-memory history is empty.  Storage does the requests as they  *)
(* are issued: when it holds no history and a clear() has issued its   *)
(* removal, a removal was the last request.  The addHistory calls have *)
(* completed or await nothing but the acknowledgement of their save.   *)
(* ------------------------------------------------------------------ *)
ClearIssuedLast ==
    /\ store = None
    /\ \E c \in Procs : op[c] = "clear" /\ pc[c] = "done"
    /\ \A p \in Procs : pc[p] \in {"idle", "done", "ah_save"}

C23_ClearNotUndone == ClearIssuedLast => arrays[history] = <<>>

\* clear() was called and has completed while an addHistory that had
\* pushed its entry and issued its save awaited the acknowledgement
C23_ClearedDuringAddHistory ==
    \E a, c \in Procs :
        /\ op[a] = "addHistory" /\ pc[a] = "ah_save" /\ snap[a] # <<>>
        /\ op[c] = "clear" /\ pc[c] = "done" /\ ret[c].out = "cleared"
        /\ store = None
        /\ arrays[history] = <<>>

\* both have completed, the addHistory with its save acknowledged
BothCompletedClearLast ==
    \E a, c \in Procs :
        /\ op[a] = "addHistory" /\ pc[a] = "done" /\ ret[a].out = "saved"
        /\ op[c] = "clear" /\ pc[c] = "done" /\ ret[c].out = "cleared"
        /\ store = None
        /\ arrays[history] = <<>>

(* ------------------------------------------------------------------ *)
(* C24  In every reachable state, under any interleaving of            *)
(* addHistory, getHistory and clear calls on one instance while the    *)
(* key stays available, no two adjacent entries of the in-memory       *)
(* history have the same password.                                     *)
(* ------------------------------------------------------------------ *)
C24_NoAdjacentDuplicates ==
    \A i \in 1..(Len(arrays[history]) - 1) :
        arrays[history][i].password # arrays[history][i + 1].password

\* two addHistory calls of one password overlapped: both were made with
\* the history empty, one pushed, and the other found the entry and
\* returned without pushing
C24_OverlappingDuplicateSuppressed ==
    \E a, b \in Procs :
        /\ a # b
        /\ op[a] = "addHistory" /\ op[b] = "addHistory"
        /\ password[a] = password[b]
        /\ pc[a] \in {"ah_enc", "ah_save", "done"} /\ snap[a] # <<>>
        /\ pc[b] = "done" /\ ret[b].out = "dup"
        /\ Len(arrays[history]) = 1
        /\ arrays[history][1].password = password[a]

\* two overlapping addHistory calls of two passwords both pushed
TwoEntriesInMemory ==
    /\ Len(arrays[history]) = 2
    /\ arrays[history][1].password # arrays[history][2].password

(* ------------------------------------------------------------------ *)
(* C25 (SpecAutoLock).  The lock check runs at construction and then   *)
(* every 10 seconds.  If from some point on no view is open, a key is  *)
(* present, the stored lock option is >= 0 and lastActive is set and   *)
(* no longer updated, then lock() is eventually invoked; and checkLock *)
(* does not invoke it before lockOption * 60 seconds have passed since *)
(* lastActive.                                                         *)
(* ------------------------------------------------------------------ *)
\* no view open, a key, a lock option >= 0, the user last active at t
AutoLockSet(t) ==
    /\ ~viewOpen
    /\ key
    /\ lockOption # None /\ lockOption[1] >= 0
    /\ lastActive = Some(t)

C25_AutoLockEventually ==
    /\ \A t \in {k * Interval : k \in 0..(AutoLockCap \div Interval)} :
          AutoLockSet(t) ~> (lkInvoked \/ ~AutoLockSet(t))
    /\ [][(lkInvoked' /\ ~lkInvoked) =>
             /\ lastActive # None /\ lockOption # None
             /\ vNow - lastActive[1] >= lockOption[1] * 60 * 1000]_vars

\* the check of the timer has called lock(), the first check to find
\* lockOption minutes, not 0, passed since the user was last active,
\* later than at construction
C25_LockedByTimer ==
    /\ lkOp = "checkLock" /\ lkPc = "lk_all" /\ lkInvoked
    /\ ~viewOpen
    /\ lockOption # None /\ lockOption[1] > 0
    /\ lastActive # None /\ lastActive[1] >= Interval
    /\ vNow - lastActive[1] = lockOption[1] * Minute
====
